---- MODULE Spec2Model ----
(***************************************************************************)
(* The remote orchestration engine of src/src/remote.c: the pending-       *)
(* callback stack, the resumable connect / download / fetch / upload /     *)
(* push stage chains, the synchronous select loop, and the reconciliation  *)
(* of local references (update_tips, opportunistic updates, prune).        *)
(*                                                                         *)
(* Every C function is an operator from a world record `w` (the remote     *)
(* handle, the transports it points to, the repository and the observation *)
(* log) to the SET of outcomes [w |-> world after, err |-> return value]   *)
(* the function can produce; the set is where the transport, the user      *)
(* callbacks and select() choose.  One action of the state machine is one  *)
(* call of the public API by the owner of the handle.                      *)
(***************************************************************************)
EXTENDS Integers, Sequences, FiniteSets, TLC

VARIABLES
    remote,     \* the git_remote handle (struct git_remote)
    tr,         \* the transport objects the handle's two slots may point to
    repo,       \* the local repository: reference store, odb, FETCH_HEAD
    peer,       \* what the peer repository advertises on connect
    obs,        \* observation log of the stages of the operation in flight
    call        \* the last API call: its kind and its result

vars == <<remote, tr, repo, peer, obs, call>>

----------------------------------------------------------------------------
(* Bounds of the model.                                                    *)

\* transport objects alive at one time
MaxTransports == 1
\* resume frames one suspended transport operation keeps on the stack
MaxTransportFrames == 1
\* would-block answers the transport gives inside one API call
MaxBlocks == 1

\* operations the owner of a handle starts in one run
MaxCalls == 2

\* ARRAY_SIZE(remote->perform_callbacks); the array is declared in remote.h
MaxPerformCallbacks == 8

----------------------------------------------------------------------------
(* Names, object ids, refspecs.                                            *)

NoName == <<>>
ZeroId == 0

N(a, b, c) == <<a, b, c>>

HEAD_FILE == <<"HEAD">>

\* a component that makes a reference name malformed (as in "v1^{}")
BadToken == "v1^{}"

IsWild(name) == name # NoName /\ name[Len(name)] = "*"

\* git_reference_is_valid_name
IsValidRefName(name) ==
    /\ name # NoName
    /\ \A i \in 1..Len(name) : name[i] \notin {BadToken, "*"}

IsPrefixOf(p, s) == Len(p) <= Len(s) /\ SubSeq(s, 1, Len(p)) = p

\* match of a name against one side of a refspec
PatternMatches(pat, name) ==
    IF pat = NoName THEN FALSE
    ELSE IF IsWild(pat)
         THEN LET stem == SubSeq(pat, 1, Len(pat) - 1)
              IN  IsPrefixOf(stem, name) /\ Len(name) > Len(stem)
         ELSE pat = name

\* substitute what the wildcard of `from` matched in `name` into `to`
PatternTransform(from, to, name) ==
    IF IsWild(from) /\ IsWild(to)
    THEN SubSeq(to, 1, Len(to) - 1) \o SubSeq(name, Len(from), Len(name))
    ELSE to

git_refspec_src_matches(spec, name) == PatternMatches(spec.src, name)
git_refspec_dst_matches(spec, name) == PatternMatches(spec.dst, name)
git_refspec_transform(spec, name) == PatternTransform(spec.src, spec.dst, name)
git_refspec_rtransform(spec, name) == PatternTransform(spec.dst, spec.src, name)
git_refspec_is_wildcard(spec) == IsWild(spec.src)

RefSpec(src, dst, force) == [src |-> src, dst |-> dst, force |-> force, push |-> FALSE]

\* GIT_REFSPEC_TAGS, "refs/tags/*:refs/tags/*"
TagSpec == RefSpec(N("refs", "tags", "*"), N("refs", "tags", "*"), FALSE)

\* default_fetchspec_for_name for the remote "origin"
DefaultFetchSpec == RefSpec(N("refs", "heads", "*"), <<"refs", "remotes", "origin", "*">>, TRUE)

HeadNames(heads) == {heads[i].name : i \in 1..Len(heads)}

\* git_refspec__dwim_one: a wildcard spec is kept, a literal one is kept when
\* its source is advertised, a bare source name is completed to refs/heads/
DwimOne(spec, heads) ==
    IF IsWild(spec.src) THEN <<spec>>
    ELSE IF spec.src \in HeadNames(heads) THEN <<spec>>
    ELSE IF Len(spec.src) = 1 /\ (<<"refs", "heads">> \o spec.src) \in HeadNames(heads)
         THEN <<[spec EXCEPT !.src = <<"refs", "heads">> \o spec.src]>>
    ELSE <<>>

RECURSIVE dwim_refspecs(_, _)
dwim_refspecs(refspecs, heads) ==
    IF refspecs = <<>> THEN <<>>
    ELSE DwimOne(Head(refspecs), heads) \o dwim_refspecs(Tail(refspecs), heads)

----------------------------------------------------------------------------
(* Worlds and outcomes.                                                    *)

W == remote @@ tr @@ repo @@ peer @@ obs

Part(w, rec) == [f \in DOMAIN rec |-> w[f]]

Out(w, e) == [w |-> w, err |-> e]

\* one more entry of the observation log
LogEv(w, stage, what) == [w EXCEPT !.log = Append(@, <<stage, what>>)]

\* a stage that answers would-block again and again is logged as blocked once
LogBlock(w, stage) ==
    IF w.log # <<>> /\ w.log[Len(w.log)] = <<stage, "block">> THEN w
    ELSE LogEv(w, stage, "block")

\* the URLs of a handle: NullUrl is the NULL pointer and the disposed buffer,
\* HookUrl what a resolve_url hook writes
NullUrl == "NULL"
FetchUrl == "fetch-url"
PushUrl == "push-url"
HookUrl == "hook-url"

DefaultCallbacks ==
    [set_fd_events |-> "null", resolve_url |-> FALSE,
     update_tips |-> FALSE, push_update_reference |-> FALSE]

\* GIT_FETCH_OPTIONS_INIT
DefaultFetchOptions ==
    [callbacks |-> DefaultCallbacks, prune |-> "UNSPECIFIED",
     update_fetchhead |-> TRUE, download_tags |-> "UNSPECIFIED"]

NoTransport == [st |-> "none", connected |-> FALSE, cancelled |-> FALSE, heads |-> <<>>]

----------------------------------------------------------------------------
(* The pending-callback stack.                                             *)

TransportFrames ==
    {"transport_connect", "transport_negotiate",
     "transport_download_pack", "transport_push_finish"}

TransportFrame(op) ==
    CASE op = "connect" -> "transport_connect"
      [] op = "negotiate" -> "transport_negotiate"
      [] op = "download_pack" -> "transport_download_pack"
      [] op = "push_finish" -> "transport_push_finish"

FrameOp(frame) ==
    CASE frame = "transport_connect" -> "connect"
      [] frame = "transport_negotiate" -> "negotiate"
      [] frame = "transport_download_pack" -> "download_pack"
      [] frame = "transport_push_finish" -> "push_finish"

\* the push that knows no capacity
AddPerformcbUnbounded(w, cb) == Out([w EXCEPT !.stack = Append(@, cb)], "OK")

\* the refused push of a frame is noted in the log
git_remote_add_performcb(w, cb) ==
    IF Len(w.stack) < MaxPerformCallbacks
    THEN Out([w EXCEPT !.stack = Append(@, cb)], "OK")
    ELSE Out([w EXCEPT !.log = Append(@, <<"stack", "full">>)], "ERROR")

\* a mutant of check_busy: the handle is never busy
CheckBusyNever(w) == "OK"

check_busy(w) == IF Len(w.stack) # 0 THEN "EBUSY" ELSE "OK"

RECURSIVE git_remote_dispatch_performcb(_, _)

\* the re-arm that dispatches and pushes nothing
RearmDropping(w, events, cb) == git_remote_dispatch_performcb(w, events)

git_remote_rearm_performcb(w, events, cb) ==
    UNION { IF o.err = "EAGAIN"
            THEN LET a == git_remote_add_performcb(o.w, cb)
                 IN  {IF a.err # "OK" THEN a ELSE Out(a.w, "EAGAIN")}
            ELSE {o}
            : o \in git_remote_dispatch_performcb(w, events) }

----------------------------------------------------------------------------
(* The transport, at its interface.                                        *)

Events == {"READ", "TIMEOUT"}

\* free hook of the transport; freeing what is not alive is a double free
TransportFree(w, t) ==
    IF w.transports[t].st = "alive"
    THEN [w EXCEPT !.transports[t] = [@ EXCEPT !.st = "freed", !.connected = FALSE]]
    ELSE [w EXCEPT !.double_free = TRUE]

\* the objects a completed download has put into the object database
Wanted(w) ==
    {w.transports[w.transport].heads[i].oid :
        i \in {j \in 1..Len(w.transports[w.transport].heads) :
                 \E k \in 1..Len(w.active_refspecs) :
                    git_refspec_src_matches(w.active_refspecs[k],
                        w.transports[w.transport].heads[j].name)}}

TransportEffect(w, t, op) ==
    CASE op = "connect" ->
            [w EXCEPT !.transports[t] =
                [@ EXCEPT !.connected = TRUE, !.cancelled = FALSE, !.heads = w.peer_heads]]
      [] op = "download_pack" -> [w EXCEPT !.odb = @ \cup Wanted(w)]
      [] OTHER -> w

\* the numbers of frames the transport of the peer may push
FrameCounts(w) == IF "frames" \in DOMAIN w THEN w.frames ELSE 1..MaxTransportFrames

\* what one call into a transport operation, or one resumption of it, can
\* answer: done, failed, or would-block with its resume frames pushed
TransportOutcomes(w, t, op) ==
    LET done == Out(LogEv(TransportEffect(w, t, op), op, "ok"), "OK")
        fail == Out(LogEv(w, op, "err"), "ERROR")
        block == { Out([LogBlock(w, op)
                            EXCEPT !.stack = @ \o [i \in 1..k |-> TransportFrame(op)],
                                   !.fuel = @ - 1], "EAGAIN")
                   : k \in {n \in FrameCounts(w) :
                              Len(w.stack) + n <= MaxPerformCallbacks} }
    IN  IF t = 0 \/ w.transports[t].st # "alive"
        THEN {Out([w EXCEPT !.use_after_free = TRUE], "ERROR")}
        ELSE IF w.transports[t].cancelled /\ op # "connect"
        THEN {fail}
        ELSE {done, fail} \cup (IF w.fuel > 0 THEN block ELSE {})

TransportCall(w, t, op) == TransportOutcomes(LogEv(w, op, "start"), t, op)

RECURSIVE PopTransportFrames(_)
PopTransportFrames(s) ==
    IF s # <<>> /\ s[Len(s)] \in TransportFrames
    THEN PopTransportFrames(SubSeq(s, 1, Len(s) - 1))
    ELSE s

\* the transport's own resume frame: the nested frames below it are popped
\* with it, and the suspended operation is tried again
TransportResume(w, events, op) ==
    LET t == IF op = "connect" THEN w.connect_transport ELSE w.transport
        w1 == [w EXCEPT !.stack = PopTransportFrames(@)]
    IN  IF t # 0 /\ w.transports[t].st = "alive" /\ w.transports[t].cancelled
        THEN {Out(LogEv(w1, op, "err"), "ERROR")}
        ELSE TransportOutcomes(w1, t, op)

\* the transport factories: a new transport object, or an error
NewTransport(w) ==
    LET free == {i \in 1..MaxTransports :
                   /\ w.transports[i].st # "alive"
                   /\ i \notin {w.transport, w.connect_transport}}
    IN  {[w |-> w, t |-> 0]} \cup
        (IF free = {} THEN {}
         ELSE LET t == CHOOSE i \in free : \A j \in free : i <= j
              IN  {[w |-> [w EXCEPT !.transports[t] = [NoTransport EXCEPT !.st = "alive"]],
                    t |-> t]})

\* cancel hook of the transport
TransportCancel(w, t) == [w EXCEPT !.transports[t] = [@ EXCEPT !.cancelled = TRUE]]

git_remote_connected(w) ==
    w.transport # 0 /\ w.transports[w.transport].connected

----------------------------------------------------------------------------
(* connect                                                                 *)

git_remote__connect_perform(w, events) ==
    LET t == w.connect_transport
    IN  { IF o.err # "OK"
          THEN IF o.err # "EAGAIN"
               THEN Out([TransportFree(
                            [o.w EXCEPT !.transport = IF t = @ THEN 0 ELSE @], t)
                         EXCEPT !.connect_transport = 0, !.resolved_url = NullUrl], o.err)
               ELSE o
          ELSE Out([o.w EXCEPT !.transport = t, !.connect_transport = 0,
                               !.resolved_url = NullUrl], "OK")
          : o \in git_remote_rearm_performcb(w, events, "git_remote__connect_perform") }

\* the on_error exit of git_remote__connect_goturl
ConnectOnError(w, t, error) ==
    LET w1 == IF t # 0 THEN TransportFree(w, t) ELSE w
    IN  Out([w1 EXCEPT !.resolved_url = NullUrl,
                       !.transport = IF t = @ THEN 0 ELSE @], error)

git_remote__connect_goturl(w) ==
    LET made == IF w.transport # 0 THEN {[w |-> w, t |-> w.transport]} ELSE NewTransport(w)
    IN  UNION {
          IF m.t = 0 THEN {ConnectOnError(m.w, 0, "ERROR")}
          ELSE \* set_transport_custom_headers / set_transport_callbacks may fail
               {ConnectOnError(m.w, m.t, "ERROR")} \cup
               UNION {
                 IF c.err = "EAGAIN"
                 THEN LET a == git_remote_add_performcb(c.w, "git_remote__connect_perform")
                      IN  IF a.err # "OK"
                          THEN {ConnectOnError(a.w, m.t, a.err)}
                          ELSE {Out([a.w EXCEPT !.connect_transport = m.t], "EAGAIN")}
                 ELSE IF c.err # "OK"
                 THEN {ConnectOnError(c.w, m.t, c.err)}
                 ELSE {Out([c.w EXCEPT !.resolved_url = NullUrl, !.transport = m.t], "OK")}
                 : c \in TransportCall(m.w, m.t, "connect") }
          : m \in made }

git_remote__connect_performurl(w, events) ==
    UNION { IF o.err # "OK"
            THEN {IF o.err # "EAGAIN" THEN Out([o.w EXCEPT !.resolved_url = NullUrl], o.err)
                  ELSE o}
            ELSE git_remote__connect_goturl(o.w)
            : o \in git_remote_rearm_performcb(w, events, "git_remote__connect_performurl") }

\* resolve_url: the caller's hook answers passthrough (the URL is copied),
\* handled (the buffer is what the hook wrote), would-block or an error;
\* without a hook the URL is copied
resolve_url(w, url) ==
    LET w0 == LogEv(w, "resolve", "start")
        copied == Out(LogEv([w0 EXCEPT !.resolved_url = url], "resolve", "ok"), "OK")
        handled == Out(LogEv([w0 EXCEPT !.resolved_url = HookUrl], "resolve", "ok"), "OK")
    IN  IF w.callbacks.resolve_url
        THEN {copied, handled,
              Out(LogEv(w0, "resolve", "err"), "ERROR")} \cup
             (IF w.fuel > 0 THEN {Out([w0 EXCEPT !.fuel = @ - 1], "EAGAIN")} ELSE {})
        ELSE {copied}

\* the fetch URL in either direction
UrlFetchAlways(w, direction) == w.url

\* the URL of the direction: the push URL falls back to the fetch URL
UrlOfDirection(w, direction) ==
    IF direction = "fetch" THEN w.url
    ELSE IF w.pushurl # NullUrl THEN w.pushurl ELSE w.url

git_remote__urlfordirection(w) ==
    LET url == UrlOfDirection(w, w.dir)
    IN  IF url = NullUrl THEN {Out(w, "EINVALID")} ELSE resolve_url(w, url)

git_remote__connect(w) ==
    UNION { IF u.err # "OK"
            THEN IF u.err = "EAGAIN"
                 THEN LET a == git_remote_add_performcb(u.w, "git_remote__connect_performurl")
                      IN  {IF a.err = "OK" THEN Out(a.w, "EAGAIN") ELSE a}
                 ELSE {u}
            ELSE git_remote__connect_goturl(u.w)
            : u \in git_remote__urlfordirection(w) }

----------------------------------------------------------------------------
(* perform, stop, and the synchronous loop                                 *)

git_remote_perform(w, events) ==
    { IF o.err = "ENOTFOUND" THEN Out(o.w, "ERROR") ELSE o
      : o \in git_remote_dispatch_performcb(w, events) }

\* a mutant of git_remote_stop: the stop drains the pending callbacks
StopDrains(w) ==
    [(IF w.transport # 0 THEN TransportCancel(w, w.transport) ELSE w)
        EXCEPT !.stack = <<>>]

git_remote_stop(w) ==
    IF w.transport # 0 THEN TransportCancel(w, w.transport) ELSE w

is_sync(callbacks) == callbacks.set_fd_events \in {"null", "default"}

\* a pointer argument: NULL, or the address of a value
Null(v) == [null |-> TRUE, v |-> v]
Ptr(v) == [null |-> FALSE, v |-> v]

init_remote_callbacks(w, cbs) ==
    [w EXCEPT !.callbacks = IF cbs.null THEN DefaultCallbacks ELSE cbs.v]

init_eventcb_data(w) ==
    IF is_sync(w.callbacks)
    THEN [w EXCEPT !.callbacks = [@ EXCEPT !.set_fd_events = "default"]]
    ELSE w

\* the select loop: select fails, or reports an event that is performed
RECURSIVE perform_all(_)
perform_all(w) ==
    {Out(git_remote_stop(w), "ERROR")} \cup
    UNION { UNION { IF o.err = "EAGAIN" THEN perform_all(o.w) ELSE {o}
                    : o \in git_remote_perform(w, ev) }
            : ev \in Events }

----------------------------------------------------------------------------
(* The reference store, at its interface.                                  *)

DirectRef(oid) == [oid |-> oid, sym |-> NoName]
SymbolicRef(target) == [oid |-> ZeroId, sym |-> target]

\* git_reference_name_to_id: the id a name resolves to, ZeroId when the
\* name (or the target of a symbolic reference) does not exist
git_reference_name_to_id(refs, name) ==
    IF name \notin DOMAIN refs THEN ZeroId
    ELSE IF refs[name].sym = NoName THEN refs[name].oid
    ELSE IF refs[name].sym \in DOMAIN refs THEN refs[refs[name].sym].oid
    ELSE ZeroId

SetRef(refs, name, oid) ==
    [n \in DOMAIN refs \cup {name} |-> IF n = name THEN DirectRef(oid) ELSE refs[n]]

DeleteRef(refs, name) == [n \in DOMAIN refs \ {name} |-> refs[n]]

\* git_reference_create: without force an existing name is not replaced
git_reference_create(w, name, oid, force) ==
    IF ~force /\ name \in DOMAIN w.refs
    THEN Out(w, "EEXISTS")
    ELSE Out([w EXCEPT !.refs = SetRef(@, name, oid)], "OK")

\* an int result below zero, as the code tests it with `< 0`
Failed(e) == e \notin {"OK", "POSITIVE"}

\* the update_tips hook of the caller: it returns zero, a negative value or
\* a positive value; the invocation is observed with the value returned
UpdateTipsCallback(w, callbacks, name, old, new) ==
    IF callbacks.update_tips
    THEN { Out([w EXCEPT !.tips = Append(@, [name |-> name, old |-> old,
                                             new |-> new, ret |-> r])], r)
           : r \in {"OK", "EUSER", "POSITIVE"} }
    ELSE {Out(w, "OK")}

ls_heads(w) == w.transports[w.transport].heads

----------------------------------------------------------------------------
(* FETCH_HEAD                                                              *)

\* a mutant of remote_head_for_fetchspec_src: the last update head is taken,
\* whatever its name
RemoteHeadLast(heads, update_heads, src) ==
    IF update_heads = <<>> THEN 0 ELSE update_heads[Len(update_heads)]

\* remote_head_for_fetchspec_src: the first update head of that name
remote_head_for_fetchspec_src(heads, update_heads, src) ==
    LET hit == {p \in 1..Len(update_heads) : heads[update_heads[p]].name = src}
    IN  IF hit = {} THEN 0
        ELSE update_heads[CHOOSE p \in hit : \A q \in hit : p <= q]

\* remote_head_for_ref / ref_to_update: the head HEAD's branch tracks
remote_head_for_ref(w, spec, heads, update_heads) ==
    IF w.head_upstream # NoName /\ git_refspec_dst_matches(spec, w.head_upstream)
    THEN remote_head_for_fetchspec_src(heads, update_heads,
             git_refspec_rtransform(spec, w.head_upstream))
    ELSE 0

\* a mutant of git_remote_write_fetchhead: nothing is written
WriteFetchheadNothing(w, spec, heads, update_heads) == w

git_remote_write_fetchhead(w, spec, heads, update_heads) ==
    IF update_heads = <<>> THEN w
    ELSE LET include_all == spec.src = N("refs", "heads", "*")
             merge == IF git_refspec_is_wildcard(spec)
                      THEN remote_head_for_ref(w, spec, heads, update_heads)
                      ELSE remote_head_for_fetchspec_src(heads, update_heads, spec.src)
             written == {p \in 1..Len(update_heads) :
                            \/ include_all
                            \/ git_refspec_src_matches(spec, heads[update_heads[p]].name)
                            \/ update_heads[p] = merge}
         IN  [w EXCEPT !.fetchhead = @ \cup
                 {[oid |-> heads[update_heads[p]].oid,
                   is_merge |-> update_heads[p] = merge,
                   name |-> heads[update_heads[p]].name] : p \in written}]

----------------------------------------------------------------------------
(* update_tips                                                             *)

\* a mutant of the force flag: a tag followed automatically is overwritten
TipsForceAlways(autotag) == TRUE

\* the force flag of the git_reference_create of update_tips_for_spec
TipsForce(autotag) == ~autotag

\* the reference of an iteration, once its name and the old id are known
TipsUpdate(w, callbacks, head, i, uh, autotag, refname, old) ==
    LET uh1 == IF ~autotag \/ old = ZeroId THEN Append(uh, i) ELSE uh
    IN  IF old = head.oid THEN {[w |-> w, uh |-> uh1, err |-> "OK"]}
        ELSE LET c == git_reference_create(w, refname, head.oid, TipsForce(autotag))
             IN  IF c.err = "EEXISTS" THEN {[w |-> w, uh |-> uh1, err |-> "OK"]}
                 ELSE { [w |-> cb.w, uh |-> uh1,
                         err |-> IF Failed(cb.err) THEN "ERROR" ELSE "OK"]
                        : cb \in UpdateTipsCallback(c.w, callbacks, refname,
                                                    old, head.oid) }

\* the body of an iteration, once the head is classified and named
TipsNamed(w, callbacks, spec, head, i, uh, autotag, byspec, refname) ==
    LET skip == [w |-> w, uh |-> uh, err |-> "OK"]
    IN  IF ~IsValidRefName(head.name) THEN {skip}
        ELSE IF byspec /\ spec.dst = NoName
        THEN {[w |-> w, uh |-> Append(uh, i), err |-> "OK"]}
        ELSE IF refname = NoName THEN {skip}
        ELSE IF autotag /\ head.oid \notin w.odb THEN {skip}
        ELSE TipsUpdate(w, callbacks, head, i, uh, autotag, refname,
                        git_reference_name_to_id(w.refs, refname))

\* one iteration of the loop of update_tips_for_spec over the head refs[i];
\* an outcome carries the update_heads vector; err "OK" continues the loop
TipsHead(w, callbacks, tagopt, spec, heads, i, uh) ==
    LET head == heads[i]
        istag == git_refspec_src_matches(TagSpec, head.name)
        autotag == istag /\ tagopt = "AUTO"
        tagname == IF istag /\ tagopt # "NONE" THEN head.name ELSE NoName
        byspec == ~autotag /\ git_refspec_src_matches(spec, head.name)
        refname == IF byspec /\ spec.dst # NoName
                   THEN git_refspec_transform(spec, head.name)
                   ELSE tagname
    IN  TipsNamed(w, callbacks, spec, head, i, uh, autotag, byspec, refname)

RECURSIVE TipsLoop(_, _, _, _, _, _, _)
TipsLoop(w, callbacks, tagopt, spec, heads, i, uh) ==
    IF i > Len(heads) THEN {[w |-> w, uh |-> uh, err |-> "OK"]}
    ELSE UNION { IF s.err # "OK" THEN {s}
                 ELSE TipsLoop(s.w, callbacks, tagopt, spec, heads, i + 1, s.uh)
                 : s \in TipsHead(w, callbacks, tagopt, spec, heads, i, uh) }

\* a mutant of update_tips_for_spec: the loop ends after the first head
UpdateTipsFirstHeadOnly(w, callbacks, update_fetchhead, tagopt, spec, heads) ==
    { IF s.err # "OK" THEN Out(s.w, "ERROR")
      ELSE IF update_fetchhead
           THEN Out(git_remote_write_fetchhead(s.w, spec, heads, s.uh), "OK")
           ELSE Out(s.w, "OK")
      : s \in TipsLoop(w, callbacks, tagopt, spec, SubSeq(heads, 1, 1), 1, <<>>) }

update_tips_for_spec(w, callbacks, update_fetchhead, tagopt, spec, heads) ==
    { IF s.err # "OK" THEN Out(s.w, "ERROR")
      ELSE IF update_fetchhead
           THEN Out(git_remote_write_fetchhead(s.w, spec, heads, s.uh), "OK")
           ELSE Out(s.w, "OK")
      : s \in TipsLoop(w, callbacks, tagopt, spec, heads, 1, <<>>) }

----------------------------------------------------------------------------
(* Opportunistic updates                                                   *)

\* next_head: the loops of the cursor, entered at the for-statement `at`
\* with the 0-based indices i, j, k as the C code leaves them
RECURSIVE NextHeadFrom(_, _, _, _, _, _, _)
NextHeadFrom(heads, active, passive, at, i, j, k) ==
    CASE at = "heads" ->
            IF i >= Len(heads) THEN [over |-> TRUE, i |-> i, j |-> j, k |-> k]
            ELSE IF ~IsValidRefName(heads[i + 1].name)
                 THEN NextHeadFrom(heads, active, passive, "heads", i + 1, j, k)
                 ELSE NextHeadFrom(heads, active, passive, "active", i, j, k)
      [] at = "active" ->
            IF j >= Len(active)
            THEN NextHeadFrom(heads, active, passive, "heads", i + 1, 0, k)
            ELSE IF ~git_refspec_src_matches(active[j + 1], heads[i + 1].name)
                 THEN NextHeadFrom(heads, active, passive, "active", i, j + 1, k)
                 ELSE NextHeadFrom(heads, active, passive, "passive", i, j, k)
      [] at = "passive" ->
            IF k >= Len(passive)
            THEN NextHeadFrom(heads, active, passive, "active", i, j + 1, 0)
            ELSE IF ~git_refspec_src_matches(passive[k + 1], heads[i + 1].name)
                 THEN NextHeadFrom(heads, active, passive, "passive", i, j, k + 1)
                 ELSE [over |-> FALSE, i |-> i, j |-> j, k |-> k + 1]

\* a mutant of next_head: the two refspec vectors change places
NextHeadSwapped(w, heads, i, j, k) ==
    NextHeadFrom(heads, w.passive_refspecs, w.active_refspecs, "heads", i, j, k)

next_head(w, heads, i, j, k) ==
    NextHeadFrom(heads, w.active_refspecs, w.passive_refspecs, "heads", i, j, k)

RECURSIVE OpportunisticLoop(_, _, _, _, _, _)

\* the body of the loop for the head and the passive refspec the cursor n gave
OpportunisticHead(w, callbacks, heads, n, head, refname, old) ==
    IF old = head.oid
    THEN OpportunisticLoop(w, callbacks, heads, n.i, n.j, n.k)
    ELSE LET c == git_reference_create(w, refname, head.oid, TRUE)
         IN  UNION {
               \* a negative answer leaves the loop with the
               \* result of the create in `error`
               IF Failed(cb.err) THEN {Out(cb.w, c.err)}
               ELSE OpportunisticLoop(cb.w, callbacks, heads, n.i, n.j, n.k)
               : cb \in UpdateTipsCallback(c.w, callbacks, refname, old, head.oid) }

OpportunisticNext(w, callbacks, heads, n) ==
    IF n.over THEN {Out(w, "OK")}
    ELSE LET spec == w.passive_refspecs[n.k]
             head == heads[n.i + 1]
             refname == git_refspec_transform(spec, head.name)
         IN  \* a passive spec without destination has no name to transform to
             IF spec.dst = NoName THEN {Out(w, "ERROR")}
             ELSE OpportunisticHead(w, callbacks, heads, n, head, refname,
                                    git_reference_name_to_id(w.refs, refname))

OpportunisticLoop(w, callbacks, heads, i, j, k) ==
    OpportunisticNext(w, callbacks, heads, next_head(w, heads, i, j, k))

\* a mutant of opportunistic_updates: the references are written without a
\* word to the hook
OpportunisticSilent(w, callbacks, heads) ==
    OpportunisticLoop(w, DefaultCallbacks, heads, 0, 0, 0)

opportunistic_updates(w, callbacks, heads) ==
    OpportunisticLoop(w, callbacks, heads, 0, 0, 0)

\* observation of one call of update_tips_for_spec: the refspec, and the
\* reference store and FETCH_HEAD before and after it
LogRound(w, tagopt, spec, outs) ==
    { Out([o.w EXCEPT !.rounds = Append(@,
              [spec |-> spec, tagopt |-> tagopt, err |-> o.err,
               before |-> w.refs, after |-> o.w.refs,
               fh_before |-> w.fetchhead, fh_after |-> o.w.fetchhead])], o.err)
      : o \in outs }

RECURSIVE TipsSpecs(_, _, _, _, _, _)
TipsSpecs(w, callbacks, update_fetchhead, tagopt, heads, n) ==
    IF n > Len(w.active_refspecs) THEN {Out(w, "OK")}
    ELSE IF w.active_refspecs[n].push
         THEN TipsSpecs(w, callbacks, update_fetchhead, tagopt, heads, n + 1)
         ELSE UNION { IF o.err # "OK" THEN {o}
                      ELSE TipsSpecs(o.w, callbacks, update_fetchhead, tagopt, heads, n + 1)
                      : o \in LogRound(w, tagopt, w.active_refspecs[n],
                                update_tips_for_spec(w, callbacks, update_fetchhead, tagopt,
                                                     w.active_refspecs[n], heads)) }

\* git_push_update_tips: the push object updates the tracking references
git_push_update_tips(w, callbacks) ==
    LET w0 == LogEv(w, "push_update_tips", "start")
    IN  {Out(LogEv(w0, "push_update_tips", "ok"), "OK"),
         Out(LogEv(w0, "push_update_tips", "err"), "ERROR")}

git_remote_update_tips(w, callbacks, update_fetchhead, download_tags) ==
    IF w.push THEN git_push_update_tips(w, callbacks)
    ELSE IF w.transport = 0 THEN {Out(w, "ERROR")}
    ELSE LET heads == ls_heads(w)
             tagopt == IF download_tags = "UNSPECIFIED" THEN w.download_tags
                       ELSE download_tags
             \* truncate_fetch_head
             w0 == [w EXCEPT !.fetchhead = {}]
             tags == IF tagopt = "ALL"
                     THEN LogRound(w0, tagopt, TagSpec,
                              update_tips_for_spec(w0, callbacks, update_fetchhead, tagopt,
                                                   TagSpec, heads))
                     ELSE {Out(w0, "OK")}
         IN  UNION { IF t.err # "OK" THEN {t}
                     ELSE UNION { IF o.err # "OK" THEN {o}
                                  ELSE IF o.w.passed_refspecs
                                       THEN opportunistic_updates(o.w, callbacks, heads)
                                       ELSE {o}
                                  : o \in TipsSpecs(t.w, callbacks, update_fetchhead,
                                                    tagopt, heads, 1) }
                     : t \in tags }

----------------------------------------------------------------------------
(* prune                                                                   *)

\* git_remote__matching_dst_refspec
git_remote__matching_dst_refspec(w, refname) ==
    \E n \in 1..Len(w.active_refspecs) :
        /\ ~w.active_refspecs[n].push
        /\ git_refspec_dst_matches(w.active_refspecs[n], refname)

prune_candidates(w) == {n \in DOMAIN w.refs : git_remote__matching_dst_refspec(w, n)}

\* a mutant of the first loop of git_remote_prune: a candidate stays only
\* when every refspec that matches it leads back to an advertised head
PruneStaleAnySpec(w, heads) ==
    {c \in prune_candidates(w) :
        \E n \in 1..Len(w.active_refspecs) :
            /\ git_refspec_dst_matches(w.active_refspecs[n], c)
            /\ git_refspec_rtransform(w.active_refspecs[n], c) \notin HeadNames(heads)}

\* the candidates for which no active refspec leads back to an advertised head
PruneStale(w, heads) ==
    {c \in prune_candidates(w) :
        ~\E n \in 1..Len(w.active_refspecs) :
            /\ git_refspec_dst_matches(w.active_refspecs[n], c)
            /\ git_refspec_rtransform(w.active_refspecs[n], c) \in HeadNames(heads)}

\* the second loop of git_remote_prune over the candidates left, in the
\* order the reference listing gave them
\* `error` is the int the loop leaves behind: the answer of the last lookup,
\* or of the last call of the hook
RECURSIVE PruneLoop(_, _, _, _)
PruneLoop(w, callbacks, left, error) ==
    IF left = {} THEN {Out(w, error)}
    ELSE UNION {
           IF c \notin DOMAIN w.refs
           THEN PruneLoop(w, callbacks, left \ {c}, "ENOTFOUND")
           ELSE IF w.refs[c].sym # NoName
           THEN PruneLoop(w, callbacks, left \ {c}, "OK")
           ELSE LET id == w.refs[c].oid
                    w1 == [w EXCEPT !.refs = DeleteRef(@, c)]
                IN  UNION { IF Failed(cb.err) THEN {cb}
                            ELSE PruneLoop(cb.w, callbacks, left \ {c}, cb.err)
                            : cb \in UpdateTipsCallback(w1, callbacks, c, id, ZeroId) }
           : c \in left }

git_remote_prune(w, callbacks) ==
    LET w0 == LogEv(w, "prune", "start")
    IN  IF w.transport = 0 THEN {Out(LogEv(w0, "prune", "err"), "ERROR")}
        ELSE { Out(LogEv(o.w, "prune", IF Failed(o.err) THEN "err" ELSE "ok"), o.err)
               : o \in PruneLoop(w0, callbacks, PruneStale(w0, ls_heads(w0)), "OK") }

----------------------------------------------------------------------------
(* download                                                                *)

git_fetch_negotiate(w) == TransportCall(w, w.transport, "negotiate")

git_fetch_download_pack(w) == TransportCall(w, w.transport, "download_pack")

git_remote_download_negotiated(w) == git_fetch_download_pack(w)

\* a mutant of git_remote_download_perform_negotiate: the resumed stage is
\* entered from its start
DownloadPerformNegotiateRestarts(w, events) ==
    UNION { IF o.err # "OK" THEN {o} ELSE git_fetch_negotiate(o.w)
            : o \in git_remote_rearm_performcb(w, events,
                        "git_remote_download_perform_negotiate") }

git_remote_download_perform_negotiate(w, events) ==
    UNION { IF o.err # "OK" THEN {o} ELSE git_remote_download_negotiated(o.w)
            : o \in git_remote_rearm_performcb(w, events,
                        "git_remote_download_perform_negotiate") }

git_remote_download_connected(w) ==
    LET w0 == [w EXCEPT !.push = FALSE]
    IN  UNION { IF n.err # "OK"
                THEN IF n.err = "EAGAIN"
                     THEN LET a == git_remote_add_performcb(n.w,
                                       "git_remote_download_perform_negotiate")
                          IN  {IF a.err = "OK" THEN Out(a.w, "EAGAIN") ELSE a}
                     ELSE {n}
                ELSE git_remote_download_negotiated(n.w)
                : n \in git_fetch_negotiate(w0) }

----------------------------------------------------------------------------
(* upload                                                                  *)

git_push_finish(w) == TransportCall(w, w.transport, "push_finish")

\* git_push_status_foreach: the hook is called per reference and may refuse
git_push_status_foreach(w) ==
    LET w0 == LogEv(w, "push_status", "start")
    IN  {Out(LogEv(w0, "push_status", "ok"), "OK"),
         Out(LogEv(w0, "push_status", "err"), "EUSER")}

git_remote_upload_finished(w) ==
    IF w.callbacks.push_update_reference THEN git_push_status_foreach(w)
    ELSE {Out(w, "OK")}

git_remote_upload_perform_finish(w, events) ==
    UNION { IF o.err # "OK" THEN {o} ELSE git_remote_upload_finished(o.w)
            : o \in git_remote_rearm_performcb(w, events,
                        "git_remote_upload_perform_finish") }

git_remote_upload_connected(w) ==
    UNION { IF f.err # "OK"
            THEN IF f.err = "EAGAIN"
                 THEN LET a == git_remote_add_performcb(f.w,
                                   "git_remote_upload_perform_finish")
                      IN  {IF a.err = "OK" THEN Out(a.w, "EAGAIN") ELSE a}
                 ELSE {f}
            ELSE git_remote_upload_finished(f.w)
            : f \in git_push_finish(w) }

----------------------------------------------------------------------------
(* the synchronous adapter and the public connect and download             *)

\* a mutant of perform_all_fun: the select loop is never entered
PerformAllFunNoLoop(w, func) ==
    CASE func = "git_remote__connect" -> git_remote__connect(init_eventcb_data(w))
      [] func = "git_remote_download_connected" ->
            git_remote_download_connected(init_eventcb_data(w))
      [] func = "git_remote_upload_connected" ->
            git_remote_upload_connected(init_eventcb_data(w))

\* re-entered from the frames that its select loop dispatches
RECURSIVE perform_all_fun(_, _)
perform_all_fun(w, func) ==
    LET w0 == init_eventcb_data(w)
        first == CASE func = "git_remote__connect" -> git_remote__connect(w0)
                   [] func = "git_remote_download_connected" ->
                         git_remote_download_connected(w0)
                   [] func = "git_remote_upload_connected" ->
                         git_remote_upload_connected(w0)
    IN  UNION { IF o.err = "EAGAIN" /\ is_sync(o.w.callbacks)
                THEN perform_all(o.w)
                ELSE {o}
                : o \in first }

git_remote_connect(w, direction, callbacks) ==
    IF check_busy(w) # "OK" THEN {Out(w, check_busy(w))}
    ELSE perform_all_fun(
            init_remote_callbacks([w EXCEPT !.dir = direction], callbacks),
            "git_remote__connect")

git_remote_download_performconnect(w, events) ==
    UNION { IF o.err # "OK" THEN {o}
            ELSE perform_all_fun(o.w, "git_remote_download_connected")
            : o \in git_remote_rearm_performcb(w, events,
                        "git_remote_download_performconnect") }

\* refspecs and opts are pointer arguments
git_remote_download(w, refspecs, opts) ==
    IF check_busy(w) # "OK" THEN {Out(w, check_busy(w))}
    ELSE IF w.transport = 0 THEN {Out(w, "ERROR")}      \* ls_to_vector
    ELSE LET cbs == IF opts.null THEN Null(DefaultCallbacks) ELSE Ptr(opts.v.callbacks)
             heads == ls_heads(w)
             passed == ~refspecs.null /\ refspecs.v # <<>>
             to_active == IF passed THEN refspecs.v ELSE w.refspecs
             w1 == [w EXCEPT !.passed_refspecs = passed,
                             !.passive_refspecs = dwim_refspecs(w.refspecs, heads),
                             !.active_refspecs = dwim_refspecs(to_active, heads)]
         IN  IF git_remote_connected(w1)
             THEN perform_all_fun(init_remote_callbacks(w1, cbs),
                                  "git_remote_download_connected")
             ELSE UNION {
                    IF c.err # "OK"
                    THEN IF c.err = "EAGAIN"
                         THEN LET a == git_remote_add_performcb(c.w,
                                           "git_remote_download_performconnect")
                              IN  {IF a.err = "OK" THEN Out(a.w, "EAGAIN") ELSE a}
                         ELSE {c}
                    ELSE perform_all_fun(c.w, "git_remote_download_connected")
                    : c \in git_remote_connect(w1, "fetch", cbs) }

git_remote_disconnect(w) ==
    IF git_remote_connected(w)
    THEN Out(LogEv([w EXCEPT !.transports[w.transport] = [@ EXCEPT !.connected = FALSE]],
                   "disconnect", "ok"), "OK")
    ELSE Out(w, "OK")

----------------------------------------------------------------------------
(* fetch                                                                   *)

git_remote_fetch_cleanup(w, err) == Out([w EXCEPT !.requested_refspecs = <<>>], err)

\* whether git_remote_fetch_disconnected goes on to prune
FetchPrunes(fopts, prune_refs) ==
    IF fopts.prune = "PRUNE" THEN TRUE
    ELSE IF fopts.prune = "UNSPECIFIED" /\ prune_refs THEN TRUE
    ELSE IF fopts.prune = "NO_PRUNE" THEN FALSE
    ELSE prune_refs

git_remote_fetch_disconnected(w) ==
    LET fopts == w.opts_fetch
        w0 == LogEv(w, "update_tips",
                    IF git_remote_connected(w) THEN "start_connected" ELSE "start")
    IN  UNION {
          IF Failed(u.err)
          THEN {git_remote_fetch_cleanup(LogEv(u.w, "update_tips", "err"), u.err)}
          ELSE LET w1 == LogEv(u.w, "update_tips", "ok")
               IN  IF FetchPrunes(fopts, w1.prune_refs)
                   THEN {git_remote_fetch_cleanup(p.w, p.err)
                         : p \in git_remote_prune(w1, w1.callbacks)}
                   ELSE {git_remote_fetch_cleanup(w1, "OK")}
          : u \in git_remote_update_tips(w0, w0.callbacks, fopts.update_fetchhead,
                                         fopts.download_tags) }

git_remote_fetch_performdisconnect(w, events) ==
    UNION { IF o.err # "OK"
            THEN {IF o.err = "EAGAIN" THEN o ELSE git_remote_fetch_cleanup(o.w, o.err)}
            ELSE git_remote_fetch_disconnected(o.w)
            : o \in git_remote_rearm_performcb(w, events,
                        "git_remote_fetch_performdisconnect") }

\* a mutant of git_remote_fetch_downloaded: the transport is left open
FetchDownloadedKeepsOpen(w) == git_remote_fetch_disconnected(w)

git_remote_fetch_downloaded(w) ==
    LET d == git_remote_disconnect(w)
    IN  IF d.err # "OK"
        THEN IF d.err = "EAGAIN"
             THEN LET a == git_remote_add_performcb(d.w,
                               "git_remote_fetch_performdisconnect")
                  IN  {IF a.err = "OK" THEN Out(a.w, "EAGAIN")
                       ELSE git_remote_fetch_cleanup(a.w, a.err)}
             ELSE {git_remote_fetch_cleanup(d.w, d.err)}
        ELSE git_remote_fetch_disconnected(d.w)

git_remote_fetch_performdownload(w, events) ==
    UNION { IF o.err # "OK"
            THEN {IF o.err = "EAGAIN" THEN o ELSE git_remote_fetch_cleanup(o.w, o.err)}
            ELSE git_remote_fetch_downloaded(o.w)
            : o \in git_remote_rearm_performcb(w, events,
                        "git_remote_fetch_performdownload") }

git_remote_fetch_connected(w) ==
    UNION { IF d.err # "OK"
            THEN IF d.err = "EAGAIN"
                 THEN LET a == git_remote_add_performcb(d.w,
                                   "git_remote_fetch_performdownload")
                      IN  {IF a.err = "OK" THEN Out(a.w, "EAGAIN")
                           ELSE git_remote_fetch_cleanup(a.w, a.err)}
                 ELSE {git_remote_fetch_cleanup(d.w, d.err)}
            ELSE git_remote_fetch_downloaded(d.w)
            : d \in git_remote_download(w, Ptr(w.requested_refspecs), Ptr(w.opts_fetch)) }

git_remote_fetch_performconnect(w, events) ==
    UNION { IF o.err # "OK"
            THEN {IF o.err # "EAGAIN" THEN git_remote_fetch_cleanup(o.w, o.err) ELSE o}
            ELSE git_remote_fetch_connected(o.w)
            : o \in git_remote_rearm_performcb(w, events,
                        "git_remote_fetch_performconnect") }

git_remote_fetch(w, refspecs, opts) ==
    IF check_busy(w) # "OK" THEN {Out(w, check_busy(w))}
    ELSE LET cbs == IF opts.null THEN Null(DefaultCallbacks) ELSE Ptr(opts.v.callbacks)
             w1 == [w EXCEPT !.opts_fetch = IF opts.null THEN DefaultFetchOptions ELSE opts.v,
                             !.requested_refspecs = IF refspecs.null THEN @ ELSE refspecs.v]
         IN  UNION {
               IF c.err # "OK"
               THEN IF c.err = "EAGAIN"
                    THEN LET a == git_remote_add_performcb(c.w,
                                      "git_remote_fetch_performconnect")
                         IN  {IF a.err = "OK" THEN Out(a.w, "EAGAIN")
                              ELSE git_remote_fetch_cleanup(a.w, a.err)}
                    ELSE {git_remote_fetch_cleanup(c.w, c.err)}
               ELSE git_remote_fetch_connected(c.w)
               : c \in git_remote_connect(w1, "fetch", cbs) }

----------------------------------------------------------------------------
(* push                                                                    *)

git_remote_upload_performconnect(w, events) ==
    UNION { IF o.err # "OK" THEN {o}
            ELSE perform_all_fun(o.w, "git_remote_upload_connected")
            : o \in git_remote_rearm_performcb(w, events,
                        "git_remote_upload_performconnect") }

git_remote_upload(w, refspecs, opts) ==
    IF check_busy(w) # "OK" THEN {Out(w, check_busy(w))}
    ELSE LET cbs == IF opts.null THEN Null(DefaultCallbacks) ELSE Ptr(opts.v.callbacks)
             \* remote->refs is never filled: the DWIM sees no advertised head
             w1 == [w EXCEPT !.active_refspecs = dwim_refspecs(w.refspecs, <<>>),
                             !.push = TRUE]
         IN  IF git_remote_connected(w1)
             THEN perform_all_fun(init_remote_callbacks(w1, cbs),
                                  "git_remote_upload_connected")
             ELSE UNION {
                    IF c.err # "OK"
                    THEN IF c.err = "EAGAIN"
                         THEN LET a == git_remote_add_performcb(c.w,
                                           "git_remote_upload_performconnect")
                              IN  {IF a.err = "OK" THEN Out(a.w, "EAGAIN") ELSE a}
                         ELSE {c}
                    ELSE perform_all_fun(c.w, "git_remote_upload_connected")
                    : c \in git_remote_connect(w1, "push", cbs) }

git_remote_push_cleanup(w, err) == Out([w EXCEPT !.requested_refspecs = <<>>], err)

git_remote_push_disconnected(w) ==
    { git_remote_push_cleanup(u.w, u.err)
      : u \in git_remote_update_tips(w, w.callbacks, FALSE, "UNSPECIFIED") }

git_remote_push_performdisconnect(w, events) ==
    UNION { IF o.err # "OK"
            THEN {IF o.err = "EAGAIN" THEN o ELSE git_remote_push_cleanup(o.w, o.err)}
            ELSE git_remote_push_disconnected(o.w)
            : o \in git_remote_rearm_performcb(w, events,
                        "git_remote_push_performdisconnect") }

\* a mutant of git_remote_push_uploaded: the transport is left open
PushUploadedKeepsOpen(w) == git_remote_push_disconnected(w)

git_remote_push_uploaded(w) ==
    LET d == git_remote_disconnect(w)
    IN  IF d.err # "OK"
        THEN IF d.err = "EAGAIN"
             THEN LET a == git_remote_add_performcb(d.w,
                               "git_remote_push_performdisconnect")
                  IN  {IF a.err = "OK" THEN Out(a.w, "EAGAIN")
                       ELSE git_remote_push_cleanup(a.w, a.err)}
             ELSE {git_remote_push_cleanup(d.w, d.err)}
        ELSE git_remote_push_disconnected(d.w)

git_remote_push_performupload(w, events) ==
    UNION { IF o.err # "OK"
            THEN {IF o.err = "EAGAIN" THEN o ELSE git_remote_push_cleanup(o.w, o.err)}
            ELSE git_remote_push_uploaded(o.w)
            : o \in git_remote_rearm_performcb(w, events,
                        "git_remote_push_performupload") }

git_remote_push_connected(w) ==
    UNION { IF u.err # "OK"
            THEN IF u.err = "EAGAIN"
                 THEN LET a == git_remote_add_performcb(u.w,
                                   "git_remote_push_performupload")
                      IN  {IF a.err = "OK" THEN Out(a.w, "EAGAIN")
                           ELSE git_remote_push_cleanup(a.w, a.err)}
                 ELSE {git_remote_push_cleanup(u.w, u.err)}
            ELSE git_remote_push_uploaded(u.w)
            : u \in git_remote_upload(w, Ptr(w.requested_refspecs), Ptr(w.opts_push)) }

git_remote_push_performconnect(w, events) ==
    UNION { IF o.err # "OK"
            THEN {IF o.err # "EAGAIN" THEN git_remote_push_cleanup(o.w, o.err) ELSE o}
            ELSE git_remote_push_connected(o.w)
            : o \in git_remote_rearm_performcb(w, events,
                        "git_remote_push_performconnect") }

git_remote_push(w, refspecs, opts) ==
    IF check_busy(w) # "OK" THEN {Out(w, check_busy(w))}
    ELSE LET cbs == IF opts.null THEN Null(DefaultCallbacks) ELSE Ptr(opts.v.callbacks)
             w1 == [w EXCEPT !.opts_push = IF opts.null THEN [callbacks |-> DefaultCallbacks]
                                           ELSE opts.v,
                             !.requested_refspecs = IF refspecs.null THEN @ ELSE refspecs.v]
         IN  UNION {
               IF c.err # "OK"
               THEN IF c.err = "EAGAIN"
                    THEN LET a == git_remote_add_performcb(c.w,
                                      "git_remote_push_performconnect")
                         IN  {IF a.err = "OK" THEN Out(a.w, "EAGAIN")
                              ELSE git_remote_push_cleanup(a.w, a.err)}
                    ELSE {git_remote_push_cleanup(c.w, c.err)}
               ELSE git_remote_push_connected(c.w)
               : c \in git_remote_connect(w1, "push", cbs) }

----------------------------------------------------------------------------
(* dispatch of the frame on top of the stack                               *)

CallFrame(cb, w, events) ==
    CASE cb \in TransportFrames -> TransportResume(w, events, FrameOp(cb))
      [] cb = "git_remote__connect_perform" -> git_remote__connect_perform(w, events)
      [] cb = "git_remote__connect_performurl" -> git_remote__connect_performurl(w, events)
      [] cb = "git_remote_download_perform_negotiate" ->
            git_remote_download_perform_negotiate(w, events)
      [] cb = "git_remote_download_performconnect" ->
            git_remote_download_performconnect(w, events)
      [] cb = "git_remote_fetch_performdisconnect" ->
            git_remote_fetch_performdisconnect(w, events)
      [] cb = "git_remote_fetch_performdownload" ->
            git_remote_fetch_performdownload(w, events)
      [] cb = "git_remote_fetch_performconnect" ->
            git_remote_fetch_performconnect(w, events)
      [] cb = "git_remote_upload_perform_finish" ->
            git_remote_upload_perform_finish(w, events)
      [] cb = "git_remote_upload_performconnect" ->
            git_remote_upload_performconnect(w, events)
      [] cb = "git_remote_push_performdisconnect" ->
            git_remote_push_performdisconnect(w, events)
      [] cb = "git_remote_push_performupload" ->
            git_remote_push_performupload(w, events)
      [] cb = "git_remote_push_performconnect" ->
            git_remote_push_performconnect(w, events)

git_remote_dispatch_performcb(w, events) ==
    IF Len(w.stack) # 0
    THEN CallFrame(w.stack[Len(w.stack)],
                   [w EXCEPT !.stack = SubSeq(@, 1, Len(@) - 1)], events)
    ELSE {Out(w, "ENOTFOUND")}

----------------------------------------------------------------------------
(* The state machine: one action per call of the public API.               *)

RemoteHead(name, oid) == [name |-> name, oid |-> oid]

Main == N("refs", "heads", "main")
Dev == N("refs", "heads", "dev")
TagV1 == N("refs", "tags", "v1")
OriginMain == <<"refs", "remotes", "origin", "main">>
OriginStale == <<"refs", "remotes", "origin", "stale">>
OriginHead == <<"refs", "remotes", "origin", "HEAD">>

Callbacks(fd, resolve, tips, pushref) ==
    [set_fd_events |-> fd, resolve_url |-> resolve,
     update_tips |-> tips, push_update_reference |-> pushref]

\* the callback records a caller passes: none of the hooks (synchronous),
\* and every hook with a readiness hook of the caller's own (asynchronous)
CallbackChoices ==
    {DefaultCallbacks, Callbacks("custom", TRUE, TRUE, TRUE)}

FetchOptions(cbs, prune) ==
    [callbacks |-> cbs, prune |-> prune,
     update_fetchhead |-> TRUE, download_tags |-> "UNSPECIFIED"]

FetchOptionChoices ==
    {Null(DefaultFetchOptions)} \cup
    {Ptr(FetchOptions(c, "UNSPECIFIED")) : c \in CallbackChoices \ {DefaultCallbacks}}

PushOptionChoices ==
    {Null([callbacks |-> DefaultCallbacks])} \cup
    {Ptr([callbacks |-> c]) : c \in CallbackChoices \ {DefaultCallbacks}}

RefspecChoices == {Null(<<>>)}

InitRemote ==
    [stack |-> <<>>, transport |-> 0, connect_transport |-> 0, dir |-> "fetch",
     callbacks |-> DefaultCallbacks, resolved_url |-> NullUrl, push |-> FALSE,
     opts_fetch |-> DefaultFetchOptions, opts_push |-> [callbacks |-> DefaultCallbacks],
     requested_refspecs |-> <<>>, refspecs |-> <<DefaultFetchSpec>>,
     active_refspecs |-> <<DefaultFetchSpec>>, passive_refspecs |-> <<>>,
     passed_refspecs |-> FALSE, download_tags |-> "AUTO", prune_refs |-> FALSE,
     url |-> FetchUrl, pushurl |-> NullUrl]

InitObs ==
    [log |-> <<>>, tips |-> <<>>, rounds |-> <<>>, use_after_free |-> FALSE,
     double_free |-> FALSE, op |-> "none"]

InitCall == [op |-> "none", ret |-> "OK", n |-> 0]

Init ==
    /\ remote = InitRemote
    /\ tr = [transports |-> [i \in 1..MaxTransports |-> NoTransport]]
    /\ repo = [refs |-> (OriginStale :> DirectRef(9)) @@ (OriginHead :> SymbolicRef(OriginMain)),
               odb |-> {9}, fetchhead |-> {}, head_upstream |-> OriginMain]
    /\ peer = [peer_heads |-> <<RemoteHead(HEAD_FILE, 1), RemoteHead(Main, 1), RemoteHead(Dev, 2),
                                RemoteHead(TagV1, 3)>>]
    /\ obs = InitObs
    /\ call = InitCall

\* the world an API call starts in: a call on an idle handle starts a new
\* observation log
Start(op) ==
    LET w == W @@ [fuel |-> MaxBlocks]
    IN  IF remote.stack = <<>>
        THEN [w EXCEPT !.log = <<>>, !.tips = <<>>, !.rounds = <<>>, !.op = op]
        ELSE w

\* the heap after a call: storage that was freed and that no pointer of the
\* handle refers to is no part of the state
Heap(w) ==
    [transports |->
        [i \in 1..MaxTransports |->
            IF w.transports[i].st # "alive" /\ i \notin {w.transport, w.connect_transport}
            THEN NoTransport
            ELSE w.transports[i]]]

\* the call returns one of its outcomes; the owner of the handle starts at
\* most MaxCalls operations
Return(op, outs) ==
    /\ op = "start" => call.n < MaxCalls
    /\ \E o \in outs :
            /\ remote' = Part(o.w, remote)
            /\ tr' = Heap(o.w)
            /\ repo' = Part(o.w, repo)
            /\ peer' = Part(o.w, peer)
            /\ obs' = Part(o.w, obs)
            /\ call' = [op |-> op, ret |-> o.err,
                        n |-> IF op = "start" THEN call.n + 1 ELSE call.n]

Connect ==
    \E d \in {"fetch", "push"},
       c \in {Null(DefaultCallbacks)} \cup {Ptr(x) : x \in CallbackChoices \ {DefaultCallbacks}} :
        Return("start", git_remote_connect(Start("connect"), d, c))

Download ==
    \E r \in RefspecChoices, o \in FetchOptionChoices :
        Return("start", git_remote_download(Start("download"), r, o))

Fetch ==
    \E r \in RefspecChoices, o \in FetchOptionChoices :
        Return("start", git_remote_fetch(Start("fetch"), r, o))

Upload ==
    \E o \in PushOptionChoices :
        Return("start", git_remote_upload(Start("upload"), Null(<<>>), o))

Push ==
    \E o \in PushOptionChoices :
        Return("start", git_remote_push(Start("push"), Null(<<>>), o))

Perform ==
    \E ev \in Events :
        Return("perform", git_remote_perform(Start("perform"), ev))

Stop == Return("stop", {Out(git_remote_stop(Start("stop")), "OK")})

Disconnect == Return("disconnect", {git_remote_disconnect(Start("disconnect"))})

Next == Connect \/ Download \/ Fetch \/ Upload \/ Push \/ Perform \/ Stop \/ Disconnect

Spec == Init /\ [][Next]_vars

----------------------------------------------------------------------------
(* The reconciliation of references over varying repositories: the peer's  *)
(* heads, the configured refspecs, the tag policy and the local references *)
(* are drawn from bounded sets, and the handle is driven through fetches.  *)

\* object ids the peer's main branch may have
MaxMainOid == 2

PeeledTagV1 == <<"refs", "tags", "v1", BadToken>>
OriginDev == <<"refs", "remotes", "origin", "dev">>
OriginTrunk == <<"refs", "remotes", "origin", "trunk">>

Sel(s, S) ==
    LET F[i \in 0..Len(s)] ==
            IF i = 0 THEN <<>>
            ELSE IF i \in S THEN Append(F[i - 1], s[i]) ELSE F[i - 1]
    IN  F[Len(s)]

HeadPool(m) ==
    <<RemoteHead(HEAD_FILE, 1), RemoteHead(Main, m), RemoteHead(Dev, 2),
      RemoteHead(TagV1, 3), RemoteHead(PeeledTagV1, 4)>>

HeadChoices ==
    {Sel(HeadPool(m), S) : m \in 1..MaxMainOid,
                           S \in {{1, 2, 3, 4, 5}, {1, 2, 3, 4}, {2, 3}, {2, 4, 5}}}

ConfiguredChoices ==
    {<<DefaultFetchSpec>>,
     <<DefaultFetchSpec,
       RefSpec(N("refs", "tags", "*"), <<"refs", "remotes", "origin", "tags", "*">>, TRUE)>>,
     <<RefSpec(Main, OriginTrunk, TRUE), RefSpec(Dev, OriginTrunk, TRUE)>>}

TipsRefspecChoices ==
    {Null(<<>>),
     Ptr(<<RefSpec(Main, NoName, FALSE)>>),
     Ptr(<<RefSpec(Main, OriginDev, TRUE), RefSpec(Dev, OriginMain, TRUE)>>),
     Ptr(<<RefSpec(HEAD_FILE, OriginHead, TRUE), RefSpec(Main, OriginMain, TRUE)>>)}

RepoChoices ==
    {[refs |-> (OriginStale :> DirectRef(9)) @@ (OriginHead :> SymbolicRef(OriginMain)),
      odb |-> {9}, fetchhead |-> {}, head_upstream |-> OriginMain],
     [refs |-> (OriginMain :> DirectRef(1)) @@ (OriginHead :> SymbolicRef(OriginMain))
                 @@ (TagV1 :> DirectRef(9)),
      odb |-> {1, 3, 9}, fetchhead |-> {}, head_upstream |-> OriginMain],
     \* a repository that has never fetched: a local branch, no tracking
     \* reference
     [refs |-> (Main :> DirectRef(9)),
      odb |-> {9}, fetchhead |-> {}, head_upstream |-> NoName],
     \* tracking references the peer may have dropped, and the object of the
     \* peer's tag without a tag
     [refs |-> (OriginTrunk :> DirectRef(9)) @@ (OriginDev :> DirectRef(9)),
      odb |-> {3, 9}, fetchhead |-> {}, head_upstream |-> OriginDev]}

InitTips ==
    /\ \E c \in ConfiguredChoices, t \in {"NONE", "AUTO", "ALL"} :
          remote = [InitRemote EXCEPT !.refspecs = c, !.active_refspecs = c,
                                      !.download_tags = t]
    /\ tr = [transports |-> [i \in 1..MaxTransports |-> NoTransport]]
    /\ repo \in RepoChoices
    /\ \E h \in HeadChoices : peer = [peer_heads |-> h]
    /\ obs = InitObs
    /\ call = InitCall

\* synchronous fetches, without hooks and with an update_tips hook, and
\* with a prune
TipsOptionChoices ==
    {Null(DefaultFetchOptions),
     Ptr(FetchOptions(Callbacks("null", FALSE, TRUE, FALSE), "UNSPECIFIED")),
     Ptr(FetchOptions(Callbacks("null", FALSE, TRUE, FALSE), "PRUNE"))}

\* one fetch into each of the repositories drawn
FetchTips ==
    /\ call.op = "none"
    /\ \E r \in TipsRefspecChoices, o \in TipsOptionChoices :
          Return("start", git_remote_fetch(Start("fetch"), r, o))

NextTips == FetchTips

SpecTips == InitTips /\ [][NextTips]_vars

----------------------------------------------------------------------------
(* Prune, called by the owner of a handle that has connected: over the     *)
(* same repositories, peers and refspecs.                                  *)

ConnectTips ==
    /\ call.op = "none"
    /\ Return("start", git_remote_connect(Start("connect"), "fetch", Null(DefaultCallbacks)))

PruneTips ==
    /\ call.op = "start"
    /\ \E c \in {DefaultCallbacks, Callbacks("null", FALSE, TRUE, FALSE)} :
          Return("prune", git_remote_prune(Start("prune"), c))

NextPrune == ConnectTips \/ PruneTips

SpecPrune == InitTips /\ [][NextPrune]_vars

----------------------------------------------------------------------------
(* URL rewriting by the url.<replacement>.insteadof entries of the         *)
(* configuration.  Strings are sequences of characters; a configuration is *)
(* the sequence of its entries in the order the iterator yields them.      *)

PREFIX == <<"u", "r", "l">>
SUFFIX_FETCH == <<"i", "n", "s", "t", "e", "a", "d", "o", "f">>
SUFFIX_PUSH == <<"p", "u", "s", "h", "i", "n", "s", "t", "e", "a", "d", "o", "f">>

strlen(s) == Len(s)

\* 0 when str starts with prefix
git__prefixcmp(str, prefix) ==
    IF /\ Len(prefix) <= Len(str)
       /\ SubSeq(str, 1, Len(prefix)) = prefix
    THEN 0 ELSE 1

\* the n characters of str from offset (counted from zero) on
git__strndup(str, offset, n) == SubSeq(str, offset + 1, offset + n)

\* the entries whose name matches  prefix "\\..*\\." suffix, in the order of
\* the configuration
git_config_iterator_glob_new(config, prefix, suffix) ==
    SelectSeq(config, LAMBDA e :
        /\ Len(e.name) >= Len(prefix) + 1 + 1 + Len(suffix)
        /\ SubSeq(e.name, 1, Len(prefix) + 1) = prefix \o <<".">>
        /\ SubSeq(e.name, Len(e.name) - Len(suffix), Len(e.name)) = <<".">> \o suffix)

\* the loop over the matching entries: a value that is a prefix of the url
\* and longer than the longest so far becomes the match
RECURSIVE InsteadofLoop(_, _, _, _, _, _, _)
InsteadofLoop(iter, i, url, prefix_length, suffix_length, match_length, replacement) ==
    IF i > Len(iter) THEN [match_length |-> match_length, replacement |-> replacement]
    ELSE LET entry == iter[i]
             n == strlen(entry.value)
         IN IF git__prefixcmp(url, entry.value) # 0
            THEN InsteadofLoop(iter, i + 1, url, prefix_length, suffix_length,
                               match_length, replacement)
            ELSE IF n <= match_length
            THEN InsteadofLoop(iter, i + 1, url, prefix_length, suffix_length,
                               match_length, replacement)
            ELSE LET replacement_length == strlen(entry.name) - (prefix_length + suffix_length)
                 IN InsteadofLoop(iter, i + 1, url, prefix_length, suffix_length, n,
                                  git__strndup(entry.name, prefix_length, replacement_length))

\* the rewrite in which the first entry whose value is a prefix of the url
\* is the match, whatever its length
ApplyInsteadofFirstEntry(config, url, direction) ==
    LET suffix == IF direction = "fetch" THEN SUFFIX_FETCH ELSE SUFFIX_PUSH
        iter == SelectSeq(git_config_iterator_glob_new(config, PREFIX, suffix),
                          LAMBDA e : git__prefixcmp(url, e.value) = 0 /\ e.value # <<>>)
    IN  IF iter = <<>> THEN url
        ELSE git__strndup(iter[1].name, strlen(PREFIX) + 1,
                          strlen(iter[1].name) - (strlen(PREFIX) + 1 + strlen(suffix) + 1))
                \o SubSeq(url, Len(iter[1].value) + 1, Len(url))

apply_insteadof(config, url, direction) ==
    LET prefix_length == strlen(PREFIX) + 1
        suffix == IF direction = "fetch" THEN SUFFIX_FETCH ELSE SUFFIX_PUSH
        suffix_length == strlen(suffix) + 1
        iter == git_config_iterator_glob_new(config, PREFIX, suffix)
        m == InsteadofLoop(iter, 1, url, prefix_length, suffix_length, 0, <<>>)
    IN  IF m.match_length = 0 THEN url
        ELSE m.replacement \o SubSeq(url, m.match_length + 1, Len(url))

\* the entry url.<replacement>.insteadof = value (pushinsteadof for the push
\* direction) as the configuration file holds it; replacement and direction
\* record what the entry was written for
InsteadofEntry(replacement, value, direction) ==
    [name |-> PREFIX \o <<".">> \o replacement \o <<".">>
                \o (IF direction = "fetch" THEN SUFFIX_FETCH ELSE SUFFIX_PUSH),
     value |-> value, replacement |-> replacement, direction |-> direction]

MaxUrlLen == 3
MaxValueLen == 2
MaxEntries == 2

Letters == {"a", "b"}

\* the strings of at most n letters
Words(n) == UNION {[1..k -> Letters] : k \in 0..n}

UrlChoices == Words(MaxUrlLen) \ {<<>>}

EntryChoices ==
    {InsteadofEntry(r, v, "fetch") : r \in {<<"a">>, <<"b">>, <<"b", "a">>}, v \in Words(MaxValueLen)}
        \cup {InsteadofEntry(<<"b">>, <<"a">>, "push")}

ConfigChoices == UNION {[1..k -> EntryChoices] : k \in 0..MaxEntries}

InitUrl ==
    /\ remote = InitRemote
    /\ tr = [transports |-> [i \in 1..MaxTransports |-> NoTransport]]
    /\ repo \in {[config |-> c] : c \in ConfigChoices}
    /\ peer = [peer_heads |-> <<>>]
    /\ obs = InitObs
    /\ call = InitCall

\* the rewrite of a url
Rewrite ==
    /\ call.op = "none"
    /\ \E url \in UrlChoices, direction \in {"fetch", "push"} :
          call' = [op |-> "apply_insteadof", n |-> 1, url |-> url, direction |-> direction,
                   origin |-> url,
                   ret |-> apply_insteadof(repo.config, url, direction)]
    /\ UNCHANGED <<remote, tr, repo, peer, obs>>

\* the rewrite of the url a rewrite has returned
RewriteAgain ==
    /\ call.op = "apply_insteadof"
    /\ call.n = 1
    /\ call' = [call EXCEPT !.n = 2, !.url = call.ret,
                            !.ret = apply_insteadof(repo.config, call.ret, call.direction)]
    /\ UNCHANGED <<remote, tr, repo, peer, obs>>

NextUrl == Rewrite \/ RewriteAgain

SpecUrl == InitUrl /\ [][NextUrl]_vars

----------------------------------------------------------------------------
(* The default branch of the peer.                                         *)

GIT_REFS_HEADS_DIR == N("refs", "heads", "")
GIT_REFS_HEADS_MASTER_FILE == N("refs", "heads", "master")

\* a head the peer advertises with its symref information (NoName: none)
RemoteHeadSym(name, oid, symref_target) ==
    [name |-> name, oid |-> oid, symref_target |-> symref_target]

\* a name of components starts with the directory "refs/heads/" when its
\* first components are those of the directory
NameInDir(name, dir) ==
    git__prefixcmp(name, SubSeq(dir, 1, Len(dir) - 1)) = 0 /\ Len(name) >= Len(dir)

git_remote_ls(w) ==
    IF w.transport = 0 THEN [err |-> "ERROR", heads |-> <<>>]
    ELSE [err |-> "OK", heads |-> w.transports[w.transport].heads]

\* the guess that is the first head of HEAD's id under refs/heads/
GuessFirst(heads, i, guess) ==
    LET c == {j \in i..Len(heads) : /\ heads[1].oid = heads[j].oid
                                    /\ NameInDir(heads[j].name, GIT_REFS_HEADS_DIR)}
    IN  IF c = {} THEN guess ELSE CHOOSE j \in c : \A k \in c : j <= k

\* the loop over heads[1..]: the first head of HEAD's id under refs/heads/
\* is the guess, and a later such head replaces it when it is the master
\* branch (guess 0: none)
RECURSIVE GuessLoop(_, _, _)
GuessLoop(heads, i, guess) ==
    IF i > Len(heads) THEN guess
    ELSE IF heads[1].oid # heads[i].oid THEN GuessLoop(heads, i + 1, guess)
    ELSE IF ~NameInDir(heads[i].name, GIT_REFS_HEADS_DIR) THEN GuessLoop(heads, i + 1, guess)
    ELSE IF guess = 0 THEN GuessLoop(heads, i + 1, i)
    ELSE IF GIT_REFS_HEADS_MASTER_FILE = heads[i].name THEN i
    ELSE GuessLoop(heads, i + 1, guess)

git_remote_default_branch(w) ==
    LET ls == git_remote_ls(w)
        heads == ls.heads
    IN  IF Failed(ls.err) THEN [err |-> ls.err, out |-> NoName]
        ELSE IF Len(heads) = 0 THEN [err |-> "ENOTFOUND", out |-> NoName]
        ELSE IF heads[1].name # HEAD_FILE THEN [err |-> "ENOTFOUND", out |-> NoName]
        ELSE IF heads[1].symref_target # NoName
             THEN [err |-> "OK", out |-> heads[1].symref_target]
        ELSE LET guess == GuessLoop(heads, 2, 0)
             IN  IF guess = 0 THEN [err |-> "ENOTFOUND", out |-> NoName]
                 ELSE [err |-> "OK", out |-> heads[guess].name]

MaxHeads == 3

BranchHeadPool ==
    {RemoteHeadSym(HEAD_FILE, 1, NoName), RemoteHeadSym(HEAD_FILE, 1, Dev),
     RemoteHeadSym(GIT_REFS_HEADS_MASTER_FILE, 1, NoName),
     RemoteHeadSym(GIT_REFS_HEADS_MASTER_FILE, 2, NoName),
     RemoteHeadSym(Main, 1, NoName), RemoteHeadSym(Dev, 1, NoName),
     RemoteHeadSym(TagV1, 1, NoName)}

BranchHeadChoices == UNION {[1..k -> BranchHeadPool] : k \in 0..MaxHeads}

InitBranch ==
    /\ remote = InitRemote
    /\ tr = [transports |-> [i \in 1..MaxTransports |-> NoTransport]]
    /\ repo = [refs |-> (Main :> DirectRef(9)), odb |-> {9}, fetchhead |-> {},
               head_upstream |-> NoName]
    /\ \E h \in BranchHeadChoices : peer = [peer_heads |-> h]
    /\ obs = InitObs
    /\ call = InitCall

\* the question for the default branch, before or after a connect
DefaultBranch ==
    /\ call.op \in {"none", "start"}
    /\ LET r == git_remote_default_branch(W)
       IN  call' = [op |-> "default_branch", ret |-> r.err, n |-> call.n, out |-> r.out]
    /\ UNCHANGED <<remote, tr, repo, peer, obs>>

NextBranch == ConnectTips \/ DefaultBranch

SpecBranch == InitBranch /\ [][NextBranch]_vars

----------------------------------------------------------------------------
(* Remotes in the configuration: create and lookup.  The configuration of  *)
(* a repository is the url section (config, above) and the variables of    *)
(* the remote sections and fetch.prune (remote_cfg: the values of each     *)
(* variable in the order they were written, none when it is not set).      *)

RemoteNames == {"origin", "other", "upstream", BadToken}

\* the branches main, v1 and v1.x: a name is the sequence of its parts
\* between the dots
BranchNames == {<<"main">>, <<"v1">>, <<"v1", "x">>}

\* a variable is named by its parts between the dots
ConfigKeys ==
    {<<"remote", n, v>> : n \in RemoteNames,
                          v \in {"url", "pushurl", "fetch", "push", "tagopt", "prune"}}
        \cup {<<"fetch", "prune">>}
        \cup {<<"branch">> \o b \o <<v>> : b \in BranchNames, v \in {"remote", "merge"}}

\* a name argument that is NULL, and a refspec argument that is NULL
NullName == "(null)"
NoSpec == [null |-> TRUE]

\* "refs/heads/*:refs/remotes/origin", a refspec string that does not parse:
\* one side with a wildcard, the other without
BadSpec == RefSpec(N("refs", "heads", "*"), N("refs", "remotes", "origin"), FALSE)

NoRemote == [null |-> TRUE]

\* git_refspec__parse of "refs/heads/test:refs/remotes/<name>/test"
git_remote_is_valid_name(remote_name) ==
    /\ remote_name \notin {NullName, ""}
    /\ IsValidRefName(<<"refs", "remotes", remote_name, "test">>)

git_refspec__parse(string, is_fetch) ==
    IF IsWild(string.src) # IsWild(string.dst) THEN [err |-> "ERROR", spec |-> string]
    ELSE [err |-> "OK", spec |-> [string EXCEPT !.push = ~is_fetch]]

git_config_get_string(cfg, key) ==
    IF key \notin DOMAIN cfg \/ cfg[key] = <<>> THEN [err |-> "ENOTFOUND", value |-> <<>>]
    ELSE [err |-> "OK", value |-> cfg[key][Len(cfg[key])]]

git_config_get_bool(cfg, key) ==
    LET s == git_config_get_string(cfg, key)
    IN  IF s.err # "OK" THEN [err |-> s.err, value |-> FALSE]
        ELSE IF s.value \notin {"true", "false"} THEN [err |-> "ERROR", value |-> FALSE]
        ELSE [err |-> "OK", value |-> s.value = "true"]

\* the write of the only value of a variable; the write may fail
git_config_set_string(cfg, key, value) ==
    {[err |-> "OK", cfg |-> [cfg EXCEPT ![key] = <<value>>]], [err |-> "ERROR", cfg |-> cfg]}

\* the write of one more value of a variable ("$^" matches no value)
git_config_set_multivar(cfg, key, value) ==
    {[err |-> "OK", cfg |-> [cfg EXCEPT ![key] = Append(@, value)]], [err |-> "ERROR", cfg |-> cfg]}

\* add_refspec_to over the values of a multivar: the parsed refspecs, or the
\* error of the first value that does not parse
RefspecsOf(values, is_fetch) ==
    IF \E i \in 1..Len(values) : Failed(git_refspec__parse(values[i], is_fetch).err)
    THEN [err |-> "ERROR", refspecs |-> <<>>]
    ELSE [err |-> "OK",
          refspecs |-> [i \in 1..Len(values) |-> git_refspec__parse(values[i], is_fetch).spec]]

download_tags_value(cfg, name) ==
    LET ce == git_config_get_string(cfg, <<"remote", name, "tagopt">>)
    IN  IF ce.err = "OK" /\ ce.value = "--no-tags" THEN "NONE"
        ELSE IF ce.err = "OK" /\ ce.value = "--tags" THEN "ALL"
        ELSE "AUTO"

\* a lookup that reads remote.<name>.prune only, without the fetch.prune default
LookupPruneOwnOnly(cfg, name) ==
    LET own == git_config_get_bool(cfg, <<"remote", name, "prune">>)
    IN  IF ~Failed(own.err) THEN own
        ELSE IF own.err # "ENOTFOUND" THEN own
        ELSE [err |-> "OK", value |-> FALSE]

lookup_remote_prune_config(cfg, name) ==
    LET own == git_config_get_bool(cfg, <<"remote", name, "prune">>)
        all == git_config_get_bool(cfg, <<"fetch", "prune">>)
    IN  IF ~Failed(own.err) THEN own
        ELSE IF own.err # "ENOTFOUND" THEN own
        ELSE IF ~Failed(all.err) THEN all
        ELSE IF all.err # "ENOTFOUND" THEN all
        ELSE [err |-> "OK", value |-> FALSE]

\* rp: the configuration of the repository
git_remote_lookup(rp, name) ==
    IF ~git_remote_is_valid_name(name) THEN [err |-> "EINVALIDSPEC", remote |-> NoRemote]
    ELSE LET cfg == rp.remote_cfg
             url == git_config_get_string(cfg, <<"remote", name, "url">>)
             pushurl == git_config_get_string(cfg, <<"remote", name, "pushurl">>)
             fetch == RefspecsOf(cfg[<<"remote", name, "fetch">>], TRUE)
             push == RefspecsOf(cfg[<<"remote", name, "push">>], FALSE)
             prune == lookup_remote_prune_config(cfg, name)
         IN  IF url.err # "OK" /\ pushurl.err # "OK"
             THEN [err |-> "ENOTFOUND", remote |-> NoRemote]
             ELSE IF Failed(fetch.err) THEN [err |-> fetch.err, remote |-> NoRemote]
             ELSE IF Failed(push.err) THEN [err |-> push.err, remote |-> NoRemote]
             ELSE IF Failed(prune.err) THEN [err |-> prune.err, remote |-> NoRemote]
             ELSE [err |-> "OK",
                   remote |-> [null |-> FALSE, name |-> name,
                               url |-> IF url.err = "OK" /\ strlen(url.value) > 0
                                       THEN apply_insteadof(rp.config, url.value, "fetch")
                                       ELSE NoName,
                               pushurl |-> IF pushurl.err = "OK" /\ strlen(pushurl.value) > 0
                                           THEN apply_insteadof(rp.config, pushurl.value, "push")
                                           ELSE NoName,
                               refspecs |-> fetch.refspecs \o push.refspecs,
                               active_refspecs |-> dwim_refspecs(fetch.refspecs \o push.refspecs, <<>>),
                               download_tags |-> download_tags_value(cfg, name),
                               prune_refs |-> prune.value]]

\* the check that lets every name pass
EnsureNothing(rp, name) == "OK"

ensure_remote_doesnot_exist(rp, name) ==
    LET error == git_remote_lookup(rp, name).err
    IN  IF error = "ENOTFOUND" THEN "OK"
        ELSE IF Failed(error) THEN error
        ELSE "EEXISTS"

canonicalize_url(in) == IF in = NoName THEN "EINVALIDSPEC" ELSE "OK"

default_fetchspec_for_name(name) ==
    RefSpec(N("refs", "heads", "*"), <<"refs", "remotes", name, "*">>, TRUE)

CreateOut(e, cfg, r) == [err |-> e, cfg |-> cfg, remote |-> IF Failed(e) THEN NoRemote ELSE r]

\* a write_add_refspec that reports the failure of the write
WriteAddRefspecReporting(cfg, name, refspec, fetch) ==
    IF ~git_remote_is_valid_name(name) THEN {[err |-> "EINVALIDSPEC", cfg |-> cfg]}
    ELSE IF Failed(git_refspec__parse(refspec, fetch).err)
    THEN {[err |-> "EINVALIDSPEC", cfg |-> cfg]}
    ELSE git_config_set_multivar(cfg, <<"remote", name, IF fetch THEN "fetch" ELSE "push">>,
                                 refspec)

\* write_add_refspec: the refspec string becomes one more value of
\* remote.<name>.fetch or remote.<name>.push; the cleanup returns 0 whatever
\* the write has returned
write_add_refspec(cfg, name, refspec, fetch) ==
    IF ~git_remote_is_valid_name(name) THEN {[err |-> "EINVALIDSPEC", cfg |-> cfg]}
    ELSE IF Failed(git_refspec__parse(refspec, fetch).err)
    THEN {[err |-> "EINVALIDSPEC", cfg |-> cfg]}
    ELSE {[err |-> "OK", cfg |-> s.cfg]
          : s \in git_config_set_multivar(cfg, <<"remote", name,
                                                 IF fetch THEN "fetch" ELSE "push">>, refspec)}

git_remote_add_fetch(rp, remote_name, refspec) ==
    write_add_refspec(rp.remote_cfg, remote_name, refspec, TRUE)

git_remote_add_push(rp, remote_name, refspec) ==
    write_add_refspec(rp.remote_cfg, remote_name, refspec, FALSE)

\* the refspec part that gives the handle a refspec and writes none
CreateRefspecUnwritten(rp, cfg, r, opts) ==
    {CreateOut("OK", cfg, [r EXCEPT !.refspecs = <<default_fetchspec_for_name("origin")>>])}

\* a refspec part that prefers the default refspec of a named remote to the
\* fetchspec of the options
CreateRefspecDefaultFirst(rp, cfg, r, opts) ==
    IF opts.fetchspec = NoSpec /\ (opts.name = NullName \/ "SKIP_DEFAULT_FETCHSPEC" \in opts.flags)
    THEN {CreateOut("OK", cfg, r)}
    ELSE LET fetch == IF opts.name # NullName /\ "SKIP_DEFAULT_FETCHSPEC" \notin opts.flags
                      THEN default_fetchspec_for_name(opts.name)
                      ELSE opts.fetchspec
             parsed == git_refspec__parse(fetch, TRUE)
         IN  IF Failed(parsed.err) THEN {CreateOut("ERROR", cfg, r)}
             ELSE {CreateOut("OK", cfg,
                             [r EXCEPT !.refspecs = <<parsed.spec>>,
                                       !.active_refspecs = dwim_refspecs(<<parsed.spec>>, <<>>)])}

\* the refspec part of git_remote_create_with_opts, after the url was written
CreateRefspec(rp, cfg, r, opts) ==
    IF opts.fetchspec = NoSpec /\ (opts.name = NullName \/ "SKIP_DEFAULT_FETCHSPEC" \in opts.flags)
    THEN {CreateOut("OK", cfg, r)}
    ELSE LET fetch == IF opts.fetchspec # NoSpec THEN opts.fetchspec
                      ELSE default_fetchspec_for_name(opts.name)
             parsed == git_refspec__parse(fetch, TRUE)
         IN  IF Failed(parsed.err) THEN {CreateOut("ERROR", cfg, r)}
             ELSE LET r1 == [r EXCEPT !.refspecs = <<parsed.spec>>,
                                      !.active_refspecs = dwim_refspecs(<<parsed.spec>>, <<>>)]
                  IN  IF ~(opts.repository /\ opts.name # NullName) THEN {CreateOut("OK", cfg, r1)}
                      ELSE { IF Failed(s.err) THEN CreateOut(s.err, s.cfg, r1)
                             ELSE LET prune == lookup_remote_prune_config(rp.remote_cfg, opts.name)
                                  IN  CreateOut(prune.err, s.cfg,
                                                [r1 EXCEPT !.prune_refs = prune.value])
                             : s \in write_add_refspec(cfg, opts.name, fetch, TRUE) }

\* the outcomes of a create: the error, the variables of the configuration
\* after it and the handle returned
git_remote_create_with_opts(rp, url, opts) ==
    LET cfg == rp.remote_cfg
        named == opts.name # NullName
        exists == IF named /\ opts.repository THEN ensure_remote_doesnot_exist(rp, opts.name)
                  ELSE "OK"
        r == [null |-> FALSE, name |-> opts.name,
              url |-> IF opts.repository /\ "SKIP_INSTEADOF" \notin opts.flags
                      THEN apply_insteadof(rp.config, url, "fetch") ELSE url,
              pushurl |-> NoName, refspecs |-> <<>>, active_refspecs |-> <<>>,
              download_tags |-> IF named THEN "AUTO" ELSE "NONE", prune_refs |-> FALSE]
    IN  IF named /\ ~git_remote_is_valid_name(opts.name) THEN {CreateOut("EINVALIDSPEC", cfg, r)}
        ELSE IF Failed(exists) THEN {CreateOut(exists, cfg, r)}
        ELSE IF Failed(canonicalize_url(url)) THEN {CreateOut(canonicalize_url(url), cfg, r)}
        ELSE IF named /\ opts.repository
        THEN UNION { IF Failed(s.err) THEN {CreateOut(s.err, s.cfg, r)}
                     ELSE CreateRefspec(rp, s.cfg, r, opts)
                     : s \in git_config_set_string(cfg, <<"remote", opts.name, "url">>, url) }
        ELSE CreateRefspec(rp, cfg, r, opts)

git_remote_create(rp, name, url) ==
    IF ~git_remote_is_valid_name(name)
    THEN {CreateOut("EINVALIDSPEC", rp.remote_cfg, NoRemote)}
    ELSE IF Failed(canonicalize_url(url)) THEN {CreateOut("ERROR", rp.remote_cfg, NoRemote)}
    ELSE git_remote_create_with_opts(rp, url,
            [name |-> name, repository |-> TRUE, fetchspec |-> NoSpec, flags |-> {}])

git_remote_create_with_fetchspec(rp, name, url, fetch) ==
    IF ~git_remote_is_valid_name(name)
    THEN {CreateOut("EINVALIDSPEC", rp.remote_cfg, NoRemote)}
    ELSE git_remote_create_with_opts(rp, url,
            [name |-> name, repository |-> TRUE, fetchspec |-> fetch,
             flags |-> {"SKIP_DEFAULT_FETCHSPEC"}])

\* a create without name that takes the name "other"
CreateAnonymousNamed(rp, url) ==
    git_remote_create_with_opts(rp, url,
        [name |-> "other", repository |-> TRUE, fetchspec |-> NoSpec, flags |-> {}])

git_remote_create_anonymous(rp, url) ==
    git_remote_create_with_opts(rp, url,
        [name |-> NullName, repository |-> TRUE, fetchspec |-> NoSpec, flags |-> {}])

\* opts is NULL: the options of GIT_REMOTE_CREATE_OPTIONS_INIT
git_remote_create_detached(rp, url) ==
    git_remote_create_with_opts(rp, url,
        [name |-> NullName, repository |-> FALSE, fetchspec |-> NoSpec, flags |-> {}])

\* the variables of the remote section "origin", well-formed and not, a
\* section of a name that is no valid remote name, and nothing of "other"
RemoteConfigChoices ==
    {[k \in ConfigKeys |->
        CASE k = <<"remote", "origin", "url">> -> u
          [] k = <<"remote", "origin", "pushurl">> -> p
          [] k = <<"remote", "origin", "fetch">> -> f
          [] k = <<"remote", "origin", "prune">> -> b
          [] k = <<"remote", BadToken, "url">> -> x
          [] OTHER -> <<>>]
     : u \in {<<>>, <<<<"a">>>>, <<<<>>>>}, p \in {<<>>, <<<<"b">>>>},
       f \in {<<>>, <<default_fetchspec_for_name("origin")>>, <<BadSpec>>},
       b \in {<<>>, <<"true">>, <<"maybe">>}, x \in {<<>>, <<<<"a">>>>}}

CreateOptionChoices ==
    [name : {NullName, "origin", "other", BadToken}, repository : BOOLEAN,
     fetchspec : {NoSpec, RefSpec(Main, OriginMain, FALSE), BadSpec},
     flags : SUBSET {"SKIP_INSTEADOF", "SKIP_DEFAULT_FETCHSPEC"}]

InitCreate ==
    /\ remote = InitRemote
    /\ tr = [transports |-> [i \in 1..MaxTransports |-> NoTransport]]
    /\ repo \in [config : {<<>>, <<InsteadofEntry(<<"b">>, <<"a">>, "fetch")>>},
                 remote_cfg : RemoteConfigChoices]
    /\ peer = [peer_heads |-> <<>>]
    /\ obs = InitObs
    /\ call = InitCall

\* the end of a create: what was asked, the error, the handle, and the
\* variables of the configuration before it
Created(api, opts, url, outs) ==
    /\ call.op = "none"
    /\ \E o \in outs :
          /\ repo' = [repo EXCEPT !.remote_cfg = o.cfg]
          /\ call' = [op |-> "create", ret |-> o.err, n |-> call.n, api |-> api,
                      opts |-> opts, url |-> url, out |-> o.remote,
                      before |-> repo.remote_cfg]
    /\ UNCHANGED <<remote, tr, peer, obs>>

Create ==
    \E name \in {"origin", "other", BadToken, ""}, url \in {<<"a">>, NoName} :
        Created("git_remote_create",
                [name |-> name, repository |-> TRUE, fetchspec |-> NoSpec, flags |-> {}],
                url, git_remote_create(repo, name, url))

CreateWithFetchspec ==
    \E name \in {"origin", "other", BadToken}, url \in {<<"a">>, NoName},
       fetch \in {RefSpec(Main, OriginMain, FALSE), BadSpec} :
        Created("git_remote_create_with_fetchspec",
                [name |-> name, repository |-> TRUE, fetchspec |-> fetch,
                 flags |-> {"SKIP_DEFAULT_FETCHSPEC"}],
                url, git_remote_create_with_fetchspec(repo, name, url, fetch))

CreateWithOpts ==
    \E opts \in CreateOptionChoices, url \in {<<"a">>, NoName} :
        Created("git_remote_create_with_opts", opts, url,
                git_remote_create_with_opts(repo, url, opts))

CreateAnonymous ==
    \E url \in {<<"a">>, NoName} :
        Created("git_remote_create_anonymous",
                [name |-> NullName, repository |-> TRUE, fetchspec |-> NoSpec, flags |-> {}],
                url, git_remote_create_anonymous(repo, url))

CreateDetached ==
    \E url \in {<<"a">>, NoName} :
        Created("git_remote_create_detached",
                [name |-> NullName, repository |-> FALSE, fetchspec |-> NoSpec, flags |-> {}],
                url, git_remote_create_detached(repo, url))

\* the lookup of the name a create has made a remote of
LookupCreated ==
    /\ call.op = "create"
    /\ call.ret = "OK"
    /\ call.opts.repository
    /\ call.opts.name # NullName
    /\ LET l == git_remote_lookup(repo, call.opts.name)
       IN  call' = [op |-> "lookup", ret |-> l.err, n |-> call.n, api |-> call.api,
                    opts |-> call.opts, url |-> call.url, out |-> l.remote,
                    before |-> call.before, created |-> call.out]
    /\ UNCHANGED <<remote, tr, repo, peer, obs>>

NextCreate ==
    \/ Create \/ CreateWithFetchspec \/ CreateWithOpts
    \/ CreateAnonymous \/ CreateDetached
    \/ LookupCreated

SpecCreate == InitCreate /\ [][NextCreate]_vars

----------------------------------------------------------------------------
(* Rename and delete of a remote.  rp is the repository: its configuration *)
(* (config, remote_cfg) and its references (refs).                         *)

\* config.c: the variables of the section remote.<old> become those of
\* remote.<new>, or are removed when there is no new name; the write may fail
git_config_rename_section(cfg, old, new) ==
    {[err |-> "OK",
      cfg |-> [k \in DOMAIN cfg |->
                 IF k[1] = "remote" /\ k[2] = old THEN <<>>
                 ELSE IF k[1] = "remote" /\ k[2] = new
                      THEN cfg[k] \o cfg[<<"remote", old, k[3]>>]
                 ELSE cfg[k]]],
     [err |-> "ERROR", cfg |-> cfg]}

rename_remote_config_section(cfg, old_name, new_name) ==
    git_config_rename_section(cfg, old_name, new_name)

\* config.c: the removal of a variable; the write may fail
git_config_delete_entry(cfg, key) ==
    IF key \notin DOMAIN cfg \/ cfg[key] = <<>> THEN {[err |-> "ENOTFOUND", cfg |-> cfg]}
    ELSE {[err |-> "OK", cfg |-> [cfg EXCEPT ![key] = <<>>]], [err |-> "ERROR", cfg |-> cfg]}

\* the variables branch.<b>.remote in the order of the iteration
BranchRemoteKeys == <<N("branch", "main", "remote"), N("branch", "v1", "remote"),
                      <<"branch", "v1", "x", "remote">>>>

\* update_config_entries_cb over the matching entries: one of the value
\* old_name is set to new_name
RECURSIVE UpdateBranchLoop(_, _, _, _)
UpdateBranchLoop(cfg, old_name, new_name, i) ==
    IF i > Len(BranchRemoteKeys) THEN {[err |-> "OK", cfg |-> cfg]}
    ELSE LET key == BranchRemoteKeys[i]
         IN  IF cfg[key] = <<>> \/ cfg[key][Len(cfg[key])] # old_name
             THEN UpdateBranchLoop(cfg, old_name, new_name, i + 1)
             ELSE UNION { IF Failed(s.err) THEN {s}
                          ELSE UpdateBranchLoop(s.cfg, old_name, new_name, i + 1)
                          : s \in git_config_set_string(cfg, key, new_name) }

update_branch_remote_config_entry(cfg, old_name, new_name) ==
    UpdateBranchLoop(cfg, old_name, new_name, 1)

GIT_REFS_REMOTES_DIR == N("refs", "remotes", "")

\* the reference takes its name under refs/remotes/<new>/, and a symbolic
\* one whose target is under refs/remotes/<old>/ its target there
rename_one_remote_reference(refs, name, old_remote_name, new_remote_name) ==
    LET namespace == SubSeq(GIT_REFS_REMOTES_DIR, 1, 2) \o <<new_remote_name>>
        old_namespace == SubSeq(GIT_REFS_REMOTES_DIR, 1, 2) \o <<old_remote_name>>
        pfx_len == Len(old_namespace)
        new_name == namespace \o SubSeq(name, pfx_len + 1, Len(name))
        ref == refs[name]
        target == ref.sym
        renamed == [n \in (DOMAIN refs \ {name}) \cup {new_name} |->
                        IF n = new_name THEN ref ELSE refs[n]]
    IN  IF target = NoName THEN renamed
        ELSE IF ~(IsPrefixOf(old_namespace, target) /\ Len(target) > Len(old_namespace))
        THEN renamed
        ELSE [renamed EXCEPT ![new_name] =
                 SymbolicRef(namespace \o SubSeq(target, pfx_len + 1, Len(target)))]

\* the loop over the references that match refs/remotes/<old>/*, as they
\* were when the iteration began
RECURSIVE RenameRefsLoop(_, _, _, _)
RenameRefsLoop(refs, left, old_name, new_name) ==
    IF left = {} THEN refs
    ELSE LET name == CHOOSE n \in left : TRUE
         IN  RenameRefsLoop(rename_one_remote_reference(refs, name, old_name, new_name),
                            left \ {name}, old_name, new_name)

rename_remote_references(refs, old_name, new_name) ==
    RenameRefsLoop(refs,
        {n \in DOMAIN refs : PatternMatches(<<"refs", "remotes", old_name, "*">>, n)},
        old_name, new_name)

\* the loop over the refspecs of the remote that was looked up before the
\* section was moved
RECURSIVE RenameSpecsLoop(_, _, _, _, _, _)
RenameSpecsLoop(cfg, refspecs, i, name, new_name, problems) ==
    IF i > Len(refspecs) THEN {[err |-> "OK", cfg |-> cfg, problems |-> problems]}
    ELSE IF refspecs[i].push
    THEN RenameSpecsLoop(cfg, refspecs, i + 1, name, new_name, problems)
    ELSE IF default_fetchspec_for_name(name) # refspecs[i]
    THEN RenameSpecsLoop(cfg, refspecs, i + 1, name, new_name, Append(problems, refspecs[i]))
    ELSE UNION { IF Failed(s.err) THEN {[err |-> s.err, cfg |-> s.cfg, problems |-> <<>>]}
                 ELSE RenameSpecsLoop(s.cfg, refspecs, i + 1, name, new_name, problems)
                 : s \in git_config_set_string(cfg, <<"remote", new_name, "fetch">>,
                                               default_fetchspec_for_name(new_name)) }

rename_fetch_refspecs(cfg, r, new_name) ==
    RenameSpecsLoop(cfg, r.refspecs, 1, r.name, new_name, <<>>)

AdminOut(e, cfg, refs, problems) ==
    [err |-> e, cfg |-> cfg, refs |-> refs, problems |-> IF Failed(e) THEN <<>> ELSE problems]

\* the rename that does not look at the new name
RenameUnchecked(rp, name, new_name) ==
    {AdminOut("OK", [rp.remote_cfg EXCEPT ![<<"remote", name, "url">>] = <<>>],
              rp.refs, <<>>)}

git_remote_rename(rp, name, new_name) ==
    LET l == git_remote_lookup(rp, name)
        cfg == rp.remote_cfg
        exists == ensure_remote_doesnot_exist(rp, new_name)
    IN  IF Failed(l.err) THEN {AdminOut(l.err, cfg, rp.refs, <<>>)}
        ELSE IF ~git_remote_is_valid_name(new_name)
        THEN {AdminOut("EINVALIDSPEC", cfg, rp.refs, <<>>)}
        ELSE IF Failed(exists) THEN {AdminOut(exists, cfg, rp.refs, <<>>)}
        ELSE UNION { IF Failed(s.err) THEN {AdminOut(s.err, s.cfg, rp.refs, <<>>)}
                     ELSE UNION { IF Failed(b.err) THEN {AdminOut(b.err, b.cfg, rp.refs, <<>>)}
                                  ELSE LET refs == rename_remote_references(rp.refs, name, new_name)
                                       IN  {AdminOut(f.err, f.cfg, refs, f.problems)
                                            : f \in rename_fetch_refspecs(b.cfg, l.remote, new_name)}
                                  : b \in update_branch_remote_config_entry(s.cfg, name, new_name) }
                     : s \in rename_remote_config_section(cfg, name, new_name) }

\* the branch of a variable branch.<foo>.remote: what stands between
\* "branch." and the first dot after it
name_offset(name) == SubSeq(name, 2, 2)

\* the removal of a variable where not-found is no error
DeleteTolerant(cfg, key) ==
    {IF s.err = "ENOTFOUND" THEN [err |-> "OK", cfg |-> s.cfg] ELSE s
     : s \in git_config_delete_entry(cfg, key)}

RECURSIVE RemoveBranchLoop(_, _, _)
RemoveBranchLoop(cfg, remote_name, i) ==
    IF i > Len(BranchRemoteKeys) THEN {[err |-> "OK", cfg |-> cfg]}
    ELSE LET entry == BranchRemoteKeys[i]
             branch == name_offset(entry)
         IN  IF cfg[entry] = <<>> \/ cfg[entry][Len(cfg[entry])] # remote_name
             THEN RemoveBranchLoop(cfg, remote_name, i + 1)
             ELSE UNION { IF Failed(m.err) THEN {m}
                          ELSE UNION { IF Failed(r.err) THEN {r}
                                       ELSE RemoveBranchLoop(r.cfg, remote_name, i + 1)
                                       : r \in DeleteTolerant(m.cfg, <<"branch">> \o branch \o <<"remote">>) }
                          : m \in DeleteTolerant(cfg, <<"branch">> \o branch \o <<"merge">>) }

\* the entries are those the iterator took when it was made
remove_branch_config_related_entries(cfg, remote_name) ==
    RemoveBranchLoop(cfg, remote_name, 1)

remove_refs(refs, spec) ==
    [n \in {m \in DOMAIN refs : ~git_refspec_dst_matches(spec, m)} |-> refs[n]]

RECURSIVE RemoveTrackingLoop(_, _, _)
RemoveTrackingLoop(refs, refspecs, i) ==
    IF i > Len(refspecs) THEN refs
    ELSE RemoveTrackingLoop(remove_refs(refs, refspecs[i]), refspecs, i + 1)

remove_remote_tracking(rp, remote_name) ==
    LET l == git_remote_lookup(rp, remote_name)
    IN  IF Failed(l.err) THEN [err |-> l.err, refs |-> rp.refs]
        ELSE [err |-> "OK", refs |-> RemoveTrackingLoop(rp.refs, l.remote.refspecs, 1)]

git_remote_delete(rp, name) ==
    UNION { IF Failed(b.err) THEN {AdminOut(b.err, b.cfg, rp.refs, <<>>)}
            ELSE LET t == remove_remote_tracking([rp EXCEPT !.remote_cfg = b.cfg], name)
                 IN  IF Failed(t.err) THEN {AdminOut(t.err, b.cfg, rp.refs, <<>>)}
                     ELSE {AdminOut(s.err, s.cfg, t.refs, <<>>)
                           : s \in rename_remote_config_section(b.cfg, name, NullName)}
            : b \in remove_branch_config_related_entries(rp.remote_cfg, name) }

\* "+refs/notes/*:refs/notes/origin/*"
NotesSpec == RefSpec(N("refs", "notes", "*"), <<"refs", "notes", "origin", "*">>, TRUE)

OtherMain == <<"refs", "remotes", "other", "main">>
UpstreamMain == <<"refs", "remotes", "upstream", "main">>
OriginNotes == <<"refs", "notes", "origin", "commits">>

MaxAdminCalls == 2

\* the remote "origin" with none, one or two fetch refspecs and a push
\* refspec or none, the remote "other" or not, and the branches that name
\* them
AdminConfigChoices ==
    {[k \in ConfigKeys |->
        CASE k = <<"remote", "origin", "url">> -> <<<<"a">>>>
          [] k = <<"remote", "origin", "fetch">> -> f
          [] k = <<"remote", "origin", "push">> -> p
          [] k = <<"remote", "other", "url">> -> o
          [] k = <<"remote", "other", "fetch">> ->
                 IF o = <<>> THEN <<>> ELSE <<default_fetchspec_for_name("other")>>
          [] k = <<"branch", "main", "remote">> -> m
          [] k = <<"branch", "main", "merge">> -> IF m = <<>> THEN <<>> ELSE <<"main">>
          [] k = <<"branch", "v1", "remote">> -> v
          [] k = <<"branch", "v1", "merge">> -> IF v = <<>> THEN <<>> ELSE <<"v1">>
          [] k = <<"branch", "v1", "x", "remote">> -> x
          [] k = <<"branch", "v1", "x", "merge">> -> IF x = <<>> THEN <<>> ELSE <<"v1.x">>
          [] OTHER -> <<>>]
     : f \in {<<>>, <<default_fetchspec_for_name("origin")>>, <<NotesSpec>>,
              <<default_fetchspec_for_name("origin"), NotesSpec>>},
       p \in {<<>>, <<RefSpec(Dev, Dev, FALSE)>>},
       o \in {<<>>, <<<<"b">>>>},
       m \in {<<>>, <<"origin">>}, v \in {<<>>, <<"other">>}, x \in {<<>>, <<"origin">>}}

AdminRefChoices ==
    {(Main :> DirectRef(1)) @@ (Dev :> DirectRef(2)) @@ (OriginMain :> DirectRef(1))
        @@ (OriginHead :> SymbolicRef(OriginMain)) @@ (OtherMain :> DirectRef(2))
        @@ (OriginNotes :> DirectRef(3)),
     (Main :> DirectRef(1)) @@ (Dev :> DirectRef(2)) @@ (OriginMain :> DirectRef(1))
        @@ (OriginHead :> SymbolicRef(OriginMain)) @@ (OtherMain :> DirectRef(2))
        @@ (OriginNotes :> DirectRef(3)) @@ (UpstreamMain :> DirectRef(2))}

InitAdmin ==
    /\ remote = InitRemote
    /\ tr = [transports |-> [i \in 1..MaxTransports |-> NoTransport]]
    /\ repo \in [config : {<<>>}, remote_cfg : AdminConfigChoices, refs : AdminRefChoices]
    /\ peer = [peer_heads |-> <<>>]
    /\ obs = InitObs
    /\ call = InitCall

\* the end of a rename or a delete: what was asked, the error, the problem
\* refspecs, and the configuration and the references before it
Administered(op, name, new_name, outs) ==
    /\ call.n < MaxAdminCalls
    /\ \E o \in outs :
          /\ repo' = [repo EXCEPT !.remote_cfg = o.cfg, !.refs = o.refs]
          /\ call' = [op |-> op, ret |-> o.err, n |-> call.n + 1, name |-> name,
                      new_name |-> new_name, problems |-> o.problems,
                      found |-> git_remote_lookup(repo, name),
                      before |-> [remote_cfg |-> repo.remote_cfg, refs |-> repo.refs]]
    /\ UNCHANGED <<remote, tr, peer, obs>>

Rename ==
    \E name \in {"origin", "other", "upstream"},
       new_name \in {"origin", "other", "upstream", BadToken, ""} :
        Administered("rename", name, new_name, git_remote_rename(repo, name, new_name))

Delete ==
    \E name \in {"origin", "other", "upstream"} :
        Administered("delete", name, NullName, git_remote_delete(repo, name))

NextAdmin == Rename \/ Delete

SpecAdmin == InitAdmin /\ [][NextAdmin]_vars

----------------------------------------------------------------------------
(* The copy of a handle, taken in whatever state the handle is in.         *)

\* git__calloc(1, sizeof(git_remote)): every field zero
CallocRemote ==
    [name |-> NullName, repo |-> 0]
        @@ [InitRemote EXCEPT !.refspecs = <<>>, !.active_refspecs = <<>>,
                              !.download_tags = "UNSPECIFIED", !.url = NullUrl,
                              !.pushurl = NullUrl]

\* the copy that is the source itself
DupShallow(source) == [err |-> "OK", remote |-> source, source |-> source]

git_remote_dup(source) ==
    LET parsed == [i \in 1..Len(source.refspecs) |->
                      git_refspec__parse([source.refspecs[i] EXCEPT !.push = FALSE],
                                         ~source.refspecs[i].push)]
        copy == [CallocRemote EXCEPT !.name = source.name, !.url = source.url,
                                     !.pushurl = source.pushurl, !.repo = source.repo,
                                     !.download_tags = source.download_tags,
                                     !.prune_refs = source.prune_refs,
                                     !.refspecs = [i \in 1..Len(parsed) |-> parsed[i].spec]]
    IN  IF \E i \in 1..Len(parsed) : Failed(parsed[i].err)
        THEN [err |-> "ERROR", remote |-> NoRemote, source |-> source]
        ELSE [err |-> "OK", remote |-> copy, source |-> source]

\* the handle of a named remote of the repository, or of an anonymous one
InitDup ==
    /\ \E n \in {"origin", NullName} : remote = [name |-> n, repo |-> 1] @@ InitRemote
    /\ tr = [transports |-> [i \in 1..MaxTransports |-> NoTransport]]
    /\ repo = [refs |-> (OriginStale :> DirectRef(9)) @@ (OriginHead :> SymbolicRef(OriginMain)),
               odb |-> {9}, fetchhead |-> {}, head_upstream |-> OriginMain]
    /\ peer = [peer_heads |-> <<RemoteHead(HEAD_FILE, 1), RemoteHead(Main, 1), RemoteHead(Dev, 2),
                                RemoteHead(TagV1, 3)>>]
    /\ obs = InitObs
    /\ call = InitCall

\* the copy, the handle it was taken of and the transports as they were
Dup ==
    LET d == git_remote_dup(remote)
    IN  /\ remote' = d.source
        /\ call' = [op |-> "dup", ret |-> d.err, n |-> call.n, dup |-> d.remote,
                    source |-> remote, transports |-> tr.transports]
        /\ UNCHANGED <<tr, repo, peer, obs>>

NextDup ==
    Connect \/ Download \/ Fetch \/ Upload \/ Push \/ Perform \/ Stop \/ Disconnect \/ Dup

SpecDup == InitDup /\ [][NextDup]_vars

----------------------------------------------------------------------------
(* The registry of stream constructors (process-wide state) and the test   *)
(* that drives it.  w is [registry, https, ctor_called, failing_called].    *)

NoCtor == "NULL"
NoStream == "NULL"

\* the constructor of the test, and one that fails
StreamCtors == {"test_stream_init", "failing_init"}

StreamTypes == {"GIT_STREAM_STANDARD", "GIT_STREAM_TLS"}

\* the registration that keeps what was registered when it is given NULL
RegisterKeepingOnNull(w, type, ctor) ==
    [w EXCEPT !.registry = [t \in StreamTypes |->
                               IF t \in type /\ ctor # NoCtor THEN ctor ELSE w.registry[t]]]

\* the registration of a constructor for the stream types of the mask; NULL
\* clears the registration
git_stream_register(w, type, ctor) ==
    [w EXCEPT !.registry = [t \in StreamTypes |-> IF t \in type THEN ctor ELSE w.registry[t]]]

git_stream_register_tls(w, ctor) == git_stream_register(w, {"GIT_STREAM_TLS"}, ctor)

\* the constructor of the test: it notes the call, hands out its stream and
\* returns 0
test_stream_init(w) ==
    [w |-> [w EXCEPT !.ctor_called = 1], err |-> "OK", stream |-> "test_stream"]

failing_init(w) ==
    [w |-> [w EXCEPT !.failing_called = 1], err |-> "ERROR", stream |-> NoStream]

\* the registered constructor when there is one, else the stream of the
\* build, which has none without GIT_HTTPS
git_tls_stream_new(w) ==
    LET init == w.registry["GIT_STREAM_TLS"]
    IN  IF init = "test_stream_init" THEN test_stream_init(w)
        ELSE IF init = "failing_init" THEN failing_init(w)
        ELSE IF w.https THEN [w |-> w, err |-> "OK", stream |-> "builtin_tls_stream"]
        ELSE [w |-> w, err |-> "ERROR", stream |-> NoStream]

\* the history of a behaviour: the last constructor registered for TLS and
\* the stream made since, and the same of the registration before it
InitStream ==
    /\ remote = InitRemote
    /\ tr \in [registry : {[t \in StreamTypes |-> NoCtor]}, https : BOOLEAN,
               ctor_called : {0}, failing_called : {0}]
    /\ repo = [refs |-> <<>>]
    /\ peer = [peer_heads |-> <<>>]
    /\ obs = [registered |-> NoCtor, registered_before |-> NoCtor, made |-> NoStream,
              made_before |-> NoStream]
    /\ call = InitCall

Registered(op, type, ctor) ==
    /\ tr' = git_stream_register(tr, type, ctor)
    /\ obs' = IF "GIT_STREAM_TLS" \in type
              THEN [registered |-> ctor, registered_before |-> obs.registered,
                    made |-> NoStream, made_before |-> obs.made]
              ELSE obs
    /\ call' = [op |-> op, ret |-> "OK", n |-> 0, invoked |-> NoCtor, stream |-> NoStream]
    /\ UNCHANGED <<remote, repo, peer>>

RegisterTls ==
    \E ctor \in StreamCtors \cup {NoCtor} :
        Registered("git_stream_register_tls", {"GIT_STREAM_TLS"}, ctor)

RegisterStream ==
    \E type \in (SUBSET StreamTypes) \ {{}, {"GIT_STREAM_TLS"}}, ctor \in StreamCtors \cup {NoCtor} :
        Registered("git_stream_register", type, ctor)

\* "ctor_called = 0; stream = NULL;" of the test
ResetCalled ==
    /\ tr' = [tr EXCEPT !.ctor_called = 0, !.failing_called = 0]
    /\ call' = [op |-> "reset", ret |-> "OK", n |-> 0, invoked |-> NoCtor, stream |-> NoStream]
    /\ UNCHANGED <<remote, repo, peer, obs>>

TlsStreamNew ==
    LET before == [tr EXCEPT !.ctor_called = 0, !.failing_called = 0]
        o == git_tls_stream_new(before)
    IN  /\ tr' = [o.w EXCEPT !.ctor_called = IF @ = 1 THEN 1 ELSE tr.ctor_called,
                             !.failing_called = IF @ = 1 THEN 1 ELSE tr.failing_called]
        /\ obs' = [obs EXCEPT !.made = IF o.stream # NoStream THEN o.stream ELSE @]
        /\ call' = [op |-> "git_tls_stream_new", ret |-> o.err, n |-> 0,
                    invoked |-> IF o.w.ctor_called = 1 THEN "test_stream_init"
                                ELSE IF o.w.failing_called = 1 THEN "failing_init"
                                ELSE NoCtor,
                    stream |-> o.stream]
        /\ UNCHANGED <<remote, repo, peer>>

NextStream == RegisterTls \/ RegisterStream \/ ResetCalled \/ TlsStreamNew

SpecStream == InitStream /\ [][NextStream]_vars

----------------------------------------------------------------------------
(* The operations over a transport whose I/O nests deep enough to fill the *)
(* pending-callback stack.                                                 *)

InitStack ==
    /\ remote = InitRemote
    /\ tr = [transports |-> [i \in 1..MaxTransports |-> NoTransport]]
    /\ repo = [refs |-> (OriginStale :> DirectRef(9)) @@ (OriginHead :> SymbolicRef(OriginMain)),
               odb |-> {9}, fetchhead |-> {}, head_upstream |-> OriginMain]
    /\ peer = [peer_heads |-> <<RemoteHead(HEAD_FILE, 1), RemoteHead(Main, 1), RemoteHead(Dev, 2),
                                RemoteHead(TagV1, 3)>>,
               frames |-> {MaxPerformCallbacks - 1, MaxPerformCallbacks}]
    /\ obs = InitObs
    /\ call = InitCall

NextStack == Connect \/ Download \/ Fetch \/ Upload \/ Push \/ Perform \/ Stop \/ Disconnect

SpecStack == InitStack /\ [][NextStack]_vars

----------------------------------------------------------------------------
(* The end of the handle: git_remote_free on a handle in any state the     *)
(* operations can leave it in.                                             *)

\* git_remote_disconnect as git_remote_free calls it: it reads the transport
\* object, which is a use after free when the object was released already
FreeDisconnect(w) ==
    IF w.transports[w.transport].st # "alive"
    THEN [w EXCEPT !.use_after_free = TRUE]
    ELSE git_remote_disconnect(w).w

git_remote_free(w) ==
    LET w1 == IF w.connect_transport # 0
              THEN [TransportFree(w, w.connect_transport) EXCEPT !.connect_transport = 0]
              ELSE w
        w2 == IF w1.transport # 0
              THEN [TransportFree(FreeDisconnect(w1), w1.transport) EXCEPT !.transport = 0]
              ELSE w1
    IN  [w2 EXCEPT !.refspecs = <<>>, !.active_refspecs = <<>>,
                   !.passive_refspecs = <<>>, !.requested_refspecs = <<>>,
                   !.resolved_url = NullUrl]

\* the handle is freed; what it held and the flags of the heap are kept as
\* they were before, the transports as the call left them
Free ==
    LET w == git_remote_free(W)
    IN  /\ call.op # "free"
        /\ remote' = Part(w, remote)
        /\ tr' = Part(w, tr)
        /\ obs' = Part(w, obs)
        /\ call' = [op |-> "free", ret |-> "OK", n |-> call.n,
                    held |-> {remote.transport, remote.connect_transport} \ {0},
                    transport |-> remote.transport,
                    connect_transport |-> remote.connect_transport,
                    stack |-> remote.stack,
                    transports |-> tr.transports,
                    before |-> [double_free |-> obs.double_free,
                                use_after_free |-> obs.use_after_free]]
        /\ UNCHANGED <<repo, peer>>

\* nothing is called on a handle that was freed
NextFree ==
    \/ call.op # "free" /\ (Connect \/ Download \/ Fetch \/ Upload \/ Push
                            \/ Perform \/ Stop \/ Disconnect)
    \/ Free

SpecFree == Init /\ [][NextFree]_vars

----------------------------------------------------------------------------
(* A peer whose heads move between two connections, and a handle whose     *)
(* configured refspec needs the advertised heads to be completed.          *)

\* the refspec +dev:refs/remotes/origin/dev
DevShort == RefSpec(<<"dev">>, OriginDev, TRUE)

\* what the peer advertises, before and after the branch dev is pushed to it
PeerHeadChoices ==
    {<<RemoteHead(HEAD_FILE, 1), RemoteHead(Main, 1)>>,
     <<RemoteHead(HEAD_FILE, 1), RemoteHead(Main, 1), RemoteHead(Dev, 2)>>}

InitDwim ==
    /\ \E r \in {<<DefaultFetchSpec>>, <<DevShort>>} :
          remote = [InitRemote EXCEPT !.refspecs = r,
                                      !.active_refspecs = dwim_refspecs(r, <<>>)]
    /\ tr = [transports |-> [i \in 1..MaxTransports |-> NoTransport]]
    /\ repo = [refs |-> (OriginStale :> DirectRef(9)) @@ (OriginHead :> SymbolicRef(OriginMain)),
               odb |-> {9}, fetchhead |-> {}, head_upstream |-> OriginMain]
    /\ \E h \in PeerHeadChoices : peer = [peer_heads |-> h]
    /\ obs = InitObs
    /\ call = InitCall

\* somebody pushes to the peer, or deletes a branch of it, while the handle
\* is idle
PeerMoves ==
    /\ remote.stack = <<>>
    /\ call.op # "moved"
    /\ \E h \in PeerHeadChoices \ {peer.peer_heads} : peer' = [peer EXCEPT !.peer_heads = h]
    /\ call' = [call EXCEPT !.op = "moved"]
    /\ UNCHANGED <<remote, tr, repo, obs>>

NextDwim == Connect \/ Download \/ Perform \/ Disconnect \/ PeerMoves

SpecDwim == InitDwim /\ [][NextDwim]_vars

----------------------------------------------------------------------------
(* The cursor of the opportunistic updates on its own: next_head is called *)
(* again and again with the indices it left, as opportunistic_updates does. *)

\* refspecs per vector
MaxCursorSpecs == 2

CursorSpecPool == {DefaultFetchSpec, TagSpec, RefSpec(Main, OriginMain, TRUE)}

CursorSpecChoices ==
    UNION {[1..n -> CursorSpecPool] : n \in 0..MaxCursorSpecs}

CursorHeadChoices ==
    {<<>>,
     <<RemoteHead(Main, 1)>>,
     <<RemoteHead(Main, 1), RemoteHead(PeeledTagV1, 4), RemoteHead(TagV1, 3)>>,
     <<RemoteHead(PeeledTagV1, 4), RemoteHead(Dev, 2), RemoteHead(Main, 1),
       RemoteHead(TagV1, 3)>>}

InitCursor ==
    /\ \E a \in CursorSpecChoices, p \in CursorSpecChoices :
          remote = [active_refspecs |-> a, passive_refspecs |-> p]
    /\ \E h \in CursorHeadChoices : peer = [peer_heads |-> h]
    /\ tr = [transports |-> <<>>]
    /\ repo = [refs |-> <<>>]
    /\ obs = [out |-> <<>>]
    /\ call = [op |-> "none", over |-> FALSE, i |-> 0, j |-> 0, k |-> 0]

\* one call of next_head with the indices the call before left; the triple
\* it stops at is noted as <<i, j, k>>, counted from 1
NextHead ==
    LET n == next_head(remote, peer.peer_heads, call.i, call.j, call.k)
    IN  /\ ~call.over
        /\ Len(obs.out) <= Len(peer.peer_heads) * Len(remote.active_refspecs)
                                * Len(remote.passive_refspecs)
        /\ call' = [op |-> "next_head", over |-> n.over, i |-> n.i, j |-> n.j, k |-> n.k]
        /\ obs' = [out |-> IF n.over THEN obs.out
                           ELSE Append(obs.out, <<n.i + 1, n.j + 1, n.k>>)]
        /\ UNCHANGED <<remote, tr, repo, peer>>

NextCursor == NextHead

SpecCursor == InitCursor /\ [][NextCursor]_vars

----------------------------------------------------------------------------
(* The prune setting from the configuration to the fetch: the remote       *)
(* "origin" is looked up in configurations with and without the two prune  *)
(* variables, and one fetch is made with each prune option.                *)

PruneValueChoices == {<<>>, <<"true">>, <<"false">>}

PruneConfigChoices ==
    {[k \in ConfigKeys |->
        CASE k = <<"remote", "origin", "url">> -> <<<<"a">>>>
          [] k = <<"remote", "origin", "fetch">> -> <<default_fetchspec_for_name("origin")>>
          [] k = <<"remote", "origin", "prune">> -> b
          [] k = <<"fetch", "prune">> -> g
          [] OTHER -> <<>>]
     : b \in PruneValueChoices \cup {<<"maybe">>}, g \in PruneValueChoices}

InitPruneCfg ==
    /\ remote = InitRemote
    /\ tr = [transports |-> [i \in 1..MaxTransports |-> NoTransport]]
    /\ \E c \in PruneConfigChoices :
          repo = [refs |-> (OriginStale :> DirectRef(9)) @@ (OriginHead :> SymbolicRef(OriginMain)),
                  odb |-> {9}, fetchhead |-> {}, head_upstream |-> OriginMain,
                  config |-> <<>>, remote_cfg |-> c]
    /\ peer = [peer_heads |-> <<RemoteHead(HEAD_FILE, 1), RemoteHead(Main, 1)>>]
    /\ obs = InitObs
    /\ call = InitCall

\* git_remote_lookup of "origin": the handle takes what the lookup has read
LookupOrigin ==
    LET l == git_remote_lookup(repo, "origin")
    IN  /\ call.op = "none"
        /\ remote' = IF l.err # "OK" THEN remote
                     ELSE [remote EXCEPT !.refspecs = l.remote.refspecs,
                                         !.active_refspecs = l.remote.active_refspecs,
                                         !.download_tags = l.remote.download_tags,
                                         !.prune_refs = l.remote.prune_refs]
        /\ call' = [op |-> "lookup", ret |-> l.err, n |-> 0]
        /\ UNCHANGED <<tr, repo, peer, obs>>

\* one synchronous fetch of the handle looked up, with each prune option
FetchPruneCfg ==
    /\ call.op = "lookup" /\ call.ret = "OK"
    /\ \E o \in {Null(DefaultFetchOptions)} \cup
                {Ptr(FetchOptions(DefaultCallbacks, p)) : p \in {"UNSPECIFIED", "PRUNE", "NO_PRUNE"}} :
          Return("start", git_remote_fetch(Start("fetch"), Null(<<>>), o))

NextPruneCfg == LookupOrigin \/ FetchPruneCfg

SpecPruneCfg == InitPruneCfg /\ [][NextPruneCfg]_vars

----------------------------------------------------------------------------
(* The URL of a connection: handles with a fetch URL, a push URL or both,  *)
(* connected in both directions, with and without a resolve_url hook.      *)

\* the URLs of a handle that git_remote_lookup or a creation returns: one
\* of the two at least
UrlChoices2 ==
    {<<FetchUrl, NullUrl>>, <<FetchUrl, PushUrl>>, <<NullUrl, PushUrl>>}

InitConnectUrl ==
    /\ \E u \in UrlChoices2 :
          remote = [InitRemote EXCEPT !.url = u[1], !.pushurl = u[2]]
    /\ tr = [transports |-> [i \in 1..MaxTransports |-> NoTransport]]
    /\ repo = [refs |-> <<>>, odb |-> {}, fetchhead |-> {}, head_upstream |-> OriginMain]
    /\ peer = [peer_heads |-> <<RemoteHead(HEAD_FILE, 1), RemoteHead(Main, 1)>>]
    /\ obs = InitObs
    /\ call = InitCall

\* git_remote_connect in a direction: without callbacks, or with a readiness
\* hook of the caller's own, with and without a resolve_url hook
ConnectUrl ==
    \E d \in {"fetch", "push"},
       c \in {Null(DefaultCallbacks)} \cup
             {Ptr(Callbacks("custom", r, FALSE, FALSE)) : r \in BOOLEAN} :
        Return("start", git_remote_connect(Start("connect"), d, c))

NextConnectUrl == ConnectUrl \/ Perform \/ Disconnect

SpecConnectUrl == InitConnectUrl /\ [][NextConnectUrl]_vars

----------------------------------------------------------------------------
(* The default readiness hook and the rounds of the select loop, on the    *)
(* descriptor sets of eventcb_data_t.                                      *)

Fds == {1, 2}
TimeoutChoices == {0, 1}
RequestChoices == SUBSET {"READ", "WRITE"}

\* the descriptors that are ready: readable, writable, exceptional
ReadyChoices == [r : SUBSET Fds, w : SUBSET Fds, x : {{}, {1}}]

\* set_fd_events, the default hook
set_fd_events(evdata, fd, event, timeout) ==
    [readfds |-> IF "READ" \in event THEN evdata.readfds \cup {fd}
                 ELSE evdata.readfds \ {fd},
     writefds |-> IF "READ" \in event THEN evdata.writefds \cup {fd}
                  ELSE evdata.writefds \ {fd},
     exceptfds |-> evdata.exceptfds \cup {fd},
     timeout |-> timeout,
     highest_fd |-> fd]

\* select: of the descriptors below nfds in a set, those that are ready
\* remain; when none is ready the call returns at the timeout
select(nfds, fds, ready) == {fd \in fds : fd < nfds /\ fd \in ready}

\* the events of one round of perform_all
perform_all_events(evdata, ready) ==
    LET nfds == evdata.highest_fd + 1
        events ==
            (IF evdata.highest_fd \in select(nfds, evdata.readfds, ready.r)
             THEN {"READ"} ELSE {}) \cup
            (IF evdata.highest_fd \in select(nfds, evdata.writefds, ready.w)
             THEN {"WRITE"} ELSE {}) \cup
            (IF evdata.highest_fd \in select(nfds, evdata.exceptfds, ready.x)
             THEN {"ERR"} ELSE {})
    IN  IF events = {} THEN {"TIMEOUT"} ELSE events

\* init_eventcb_data zeroes the sets; the descriptor and the seconds of the
\* timeout are whatever the stack holds
InitEvents ==
    /\ \E fd \in Fds, t \in TimeoutChoices :
          remote = [evdata |-> [readfds |-> {}, writefds |-> {}, exceptfds |-> {},
                                timeout |-> t, highest_fd |-> fd]]
    /\ tr = [transports |-> <<>>]
    /\ repo = [refs |-> <<>>]
    /\ peer = [peer_heads |-> <<>>]
    /\ obs = [log |-> <<>>]
    /\ call = [op |-> "none", fd |-> 0, event |-> {}, ready |-> [r |-> {}, w |-> {}, x |-> {}],
               events |-> {}]

\* the transport asks to be woken: the hook is called
SetFdEvents ==
    /\ \E fd \in Fds, event \in RequestChoices, t \in TimeoutChoices :
          /\ remote' = [evdata |-> set_fd_events(remote.evdata, fd, event, t)]
          /\ call' = [call EXCEPT !.op = "set_fd_events", !.fd = fd, !.event = event,
                                  !.events = {}]
    /\ UNCHANGED <<tr, repo, peer, obs>>

\* one round of perform_all after the hook was called: the events that
\* git_remote_perform is called with
SelectRound ==
    /\ call.op \in {"set_fd_events", "select"}
    /\ \E ready \in ReadyChoices :
          call' = [call EXCEPT !.op = "select", !.ready = ready,
                               !.events = perform_all_events(remote.evdata, ready)]
    /\ UNCHANGED <<remote, tr, repo, peer, obs>>

NextEvents == SetFdEvents \/ SelectRound

SpecEvents == InitEvents /\ [][NextEvents]_vars

----------------------------------------------------------------------------
(* git_remote_add_fetch and git_remote_add_push on the configuration of a  *)
(* repository.                                                             *)

MaxAddCalls == 2

PushMain == RefSpec(Main, Main, FALSE)

\* the remote "origin" with a fetch refspec and a push refspec or none
AddConfigChoices ==
    {[k \in ConfigKeys |->
        CASE k = <<"remote", "origin", "url">> -> <<<<"a">>>>
          [] k = <<"remote", "origin", "fetch">> -> f
          [] k = <<"remote", "origin", "push">> -> p
          [] OTHER -> <<>>]
     : f \in {<<>>, <<default_fetchspec_for_name("origin")>>}, p \in {<<>>, <<PushMain>>}}

InitAdd ==
    /\ remote = InitRemote
    /\ tr = [transports |-> [i \in 1..MaxTransports |-> NoTransport]]
    /\ repo \in [config : {<<>>}, remote_cfg : AddConfigChoices]
    /\ peer = [peer_heads |-> <<>>]
    /\ obs = InitObs
    /\ call = InitCall

\* the end of an add: what was asked, the error, and the configuration
\* before it
Added(api, name, refspec, outs) ==
    /\ call.n < MaxAddCalls
    /\ \E o \in outs :
          /\ repo' = [repo EXCEPT !.remote_cfg = o.cfg]
          /\ call' = [op |-> "add", ret |-> o.err, n |-> call.n + 1, api |-> api,
                      name |-> name, refspec |-> refspec, before |-> repo.remote_cfg]
    /\ UNCHANGED <<remote, tr, peer, obs>>

AddFetch ==
    \E name \in {"origin", "other", BadToken},
       refspec \in {RefSpec(Main, OriginMain, FALSE), NotesSpec, BadSpec} :
        Added("git_remote_add_fetch", name, refspec, git_remote_add_fetch(repo, name, refspec))

AddPush ==
    \E name \in {"origin", "other", BadToken}, refspec \in {PushMain, BadSpec} :
        Added("git_remote_add_push", name, refspec, git_remote_add_push(repo, name, refspec))

NextAdd == AddFetch \/ AddPush

SpecAdd == InitAdd /\ [][NextAdd]_vars

----------------------------------------------------------------------------
(* Observations the properties are stated with.                            *)

Range(s) == {s[i] : i \in 1..Len(s)}

\* how often the stage was started in the log
Starts(log, stage) ==
    Cardinality({i \in 1..Len(log) : log[i][1] = stage /\ log[i][2] \in {"start", "start_connected"}})

\* every start of the stage comes after an entry <<before, "ok">>
StartsAfterOk(log, stage, before) ==
    \A i \in 1..Len(log) :
        (log[i][1] = stage /\ log[i][2] \in {"start", "start_connected"})
            => \E j \in 1..(i - 1) : log[j] = <<before, "ok">>

\* no stage starts after a stage has ended in an error
NothingAfterError(log) ==
    \A i, j \in 1..Len(log) :
        (i < j /\ log[i][2] = "err") => log[j][2] \notin {"start", "start_connected"}

\* the call that returned last was an operation or a perform, and its result
\* is terminal: a success, or an error other than would-block and busy
Terminal == call.op \in {"start", "perform"} /\ call.ret \notin {"EAGAIN", "EBUSY"}

Suspended == remote.stack # <<>>

\* the transport that performs the suspended operation
Operating == IF remote.connect_transport # 0 THEN remote.connect_transport ELSE remote.transport

----------------------------------------------------------------------------
(* The properties.                                                         *)

\* C1: whenever the pending-callback stack is non-empty, a call of connect,
\* download, fetch, upload or push returns the busy error (and changes nothing
\* of the handle)
C1_BusyError ==
    [][(Suspended /\ (Connect \/ Download \/ Fetch \/ Upload \/ Push))
         => (call'.ret = "EBUSY" /\ UNCHANGED <<remote, tr, repo, peer>>)]_vars

C1_Witness == call.op = "start" /\ call.ret = "EBUSY" /\ Suspended

\* C2: after connect, download, fetch, upload, push or perform has returned a
\* terminal result, the pending-callback stack is empty
C2_TerminalEmptiesStack == Terminal => remote.stack = <<>>

\* C3: during one fetch, URL resolution, transport connect, negotiate and
\* download-pack are each started at most once
C3_StagesStartOnce ==
    obs.op = "fetch" =>
        \A stage \in {"resolve", "connect", "negotiate", "download_pack"} :
            Starts(obs.log, stage) <= 1

C3_Witness ==
    /\ obs.op = "fetch" /\ call.op = "perform" /\ call.ret = "OK"
    /\ \A stage \in {"resolve", "connect", "negotiate", "download_pack"} :
            Starts(obs.log, stage) = 1

C7_StopKeepsStack == [][Stop => remote'.stack = remote.stack]_vars

C7_Witness == call.op = "stop" /\ Suspended

\* C8: a stop while an operation is suspended invokes the cancel hook of the
\* transport that performs the operation, and the perform that follows the
\* stop returns a terminal error and leaves the stack empty
C8_StopCancels ==
    [][/\ (Stop /\ Suspended /\ Operating # 0) => tr'.transports[Operating].cancelled
       /\ (call.op = "stop" /\ Suspended /\ Perform)
            => (call'.ret \notin {"OK", "EAGAIN"} /\ remote'.stack = <<>>)]_vars

\* C9: the in-flight slot is set only while a connect is suspended; after a
\* terminal result it is empty, and after a connect that ended in an error
\* neither slot refers to a transport
C9_InflightSlot ==
    /\ remote.connect_transport # 0
         => "git_remote__connect_perform" \in Range(remote.stack)
    /\ Terminal => remote.connect_transport = 0
    /\ (obs.log # <<>> /\ obs.log[Len(obs.log)] = <<"connect", "err">>)
         => (remote.transport = 0 /\ remote.connect_transport = 0)

\* a fetch has returned success: its last stage was update-tips, or prune
FetchSucceeded ==
    /\ obs.op = "fetch" /\ Terminal /\ call.ret = "OK" /\ obs.log # <<>>
    /\ obs.log[Len(obs.log)] \in {<<"update_tips", "ok">>, <<"prune", "ok">>}

\* the heads the transport of the handle advertised
Advertised(rm, t) == IF rm.transport = 0 THEN <<>> ELSE t.transports[rm.transport].heads

\* the pairs of C10: an advertised head and an active fetch refspec with a
\* destination whose source matches the name of the head
TipPairs(rm, t) ==
    {p \in (1..Len(Advertised(rm, t))) \X (1..Len(rm.active_refspecs)) :
        /\ ~rm.active_refspecs[p[2]].push
        /\ rm.active_refspecs[p[2]].dst # NoName
        /\ git_refspec_src_matches(rm.active_refspecs[p[2]], Advertised(rm, t)[p[1]].name)}

TipDst(rm, t, p) ==
    git_refspec_transform(rm.active_refspecs[p[2]], Advertised(rm, t)[p[1]].name)

\* C10 as stated: after a successful fetch every pair's destination points
\* to the id of the head
C10_EveryPairUpdated ==
    FetchSucceeded =>
        \A p \in TipPairs(remote, tr) :
            git_reference_name_to_id(repo.refs, TipDst(remote, tr, p))
                = Advertised(remote, tr)[p[1]].oid

IsTag(name) == git_refspec_src_matches(TagSpec, name)

\* the fetch may write the id of the head `h` to the name `x`: through an
\* active refspec, as a tag under its own name, or opportunistically through
\* a passive refspec
MayWrite(rm, h, x) ==
    /\ IsValidRefName(h.name)
    /\ \/ \E n \in 1..Len(rm.active_refspecs) :
            /\ ~rm.active_refspecs[n].push
            /\ rm.active_refspecs[n].dst # NoName
            /\ git_refspec_src_matches(rm.active_refspecs[n], h.name)
            /\ git_refspec_transform(rm.active_refspecs[n], h.name) = x
       \/ (IsTag(h.name) /\ rm.download_tags # "NONE" /\ h.name = x)
       \/ /\ rm.passed_refspecs
          /\ \E k \in 1..Len(rm.passive_refspecs) :
                /\ git_refspec_src_matches(rm.passive_refspecs[k], h.name)
                /\ git_refspec_transform(rm.passive_refspecs[k], h.name) = x

\* the destination and, when it was a symbolic reference, its target
Aliases(refs, d) ==
    {d} \cup (IF d \in DOMAIN refs /\ refs[d].sym # NoName THEN {refs[d].sym} ELSE {})

\* no head with another id may be written to the destination of the pair
Unrivalled(rm, t, refs, p) ==
    \A j \in 1..Len(Advertised(rm, t)), x \in Aliases(refs, TipDst(rm, t, p)) :
        MayWrite(rm, Advertised(rm, t)[j], x)
            => Advertised(rm, t)[j].oid = Advertised(rm, t)[p[1]].oid

\* the pairs the amended C10 speaks of: the name of the head is valid, the
\* head is no tag followed under the AUTO policy, and the destination is
\* unrivalled
Settled(rm, t, refs, p) ==
    /\ IsValidRefName(Advertised(rm, t)[p[1]].name)
    /\ ~(IsTag(Advertised(rm, t)[p[1]].name) /\ rm.download_tags = "AUTO")
    /\ Unrivalled(rm, t, refs, p)

\* C10, amended: the call that makes a fetch return success leaves, for every
\* advertised head with a valid name that is no tag followed under the AUTO
\* policy and every active fetch refspec with a destination whose source
\* matches it, the destination pointing to the id of the head, provided the
\* fetch may write no head with another id to that destination
C10_SettledPairUpdated ==
    [][FetchSucceeded' =>
        \A p \in TipPairs(remote', tr') :
            Settled(remote', tr', repo.refs, p)
                => git_reference_name_to_id(repo'.refs, TipDst(remote', tr', p))
                     = Advertised(remote', tr')[p[1]].oid]_vars

\* a successful fetch that has moved an existing destination to a new id
C10_Witness ==
    /\ FetchSucceeded
    /\ \E p \in TipPairs(remote, tr) :
          /\ Settled(remote, tr, repo.refs, p)
          /\ TipDst(remote, tr, p) = OriginMain
          /\ Advertised(remote, tr)[p[1]].oid = 2
          /\ git_reference_name_to_id(repo.refs, OriginMain) = 2

\* the call that returned was the fetch of a run of SpecTips
FetchReturns == call.op = "none" /\ call'.op = "start" /\ obs'.op = "fetch"

\* no reference under refs/remotes/
NoTracking(refs) == \A n \in DOMAIN refs : ~IsPrefixOf(<<"refs", "remotes">>, n)

\* the names whose id differs between two reference stores
ChangedRefs(before, after) ==
    {n \in DOMAIN before \cup DOMAIN after :
        git_reference_name_to_id(before, n) # git_reference_name_to_id(after, n)}

\* C11 as stated: a fetch into a repository without tracking references calls
\* the update_tips hook as often as there are references whose id changed
C11_CallbackPerChange ==
    [][(FetchReturns /\ NoTracking(repo.refs) /\ remote'.callbacks.update_tips)
         => Len(obs'.tips) = Cardinality(ChangedRefs(repo.refs, repo'.refs))]_vars

\* the names the fetch may write to
WriteNames(rm, heads) ==
    HeadNames(heads) \cup
    {git_refspec_transform(q[2], heads[q[1]].name) :
        q \in {r \in (1..Len(heads)) \X
                      (Range(rm.active_refspecs) \cup Range(rm.passive_refspecs)) :
                 r[2].dst # NoName /\ git_refspec_src_matches(r[2], heads[r[1]].name)}}

\* no name may receive two heads with different ids
NoRivals(rm, heads) ==
    \A i, j \in 1..Len(heads), x \in WriteNames(rm, heads) :
        (MayWrite(rm, heads[i], x) /\ MayWrite(rm, heads[j], x))
            => heads[i].oid = heads[j].oid

\* C11, amended: a fetch into a repository without tracking references calls
\* the update_tips hook as often as there are references whose id changed,
\* provided the fetch may write no two heads with different ids to one name
C11_CallbackPerChangeUnrivalled ==
    [][(/\ FetchReturns /\ NoTracking(repo.refs) /\ remote'.callbacks.update_tips
        /\ NoRivals(remote', Advertised(remote', tr')))
         => Len(obs'.tips) = Cardinality(ChangedRefs(repo.refs, repo'.refs))]_vars

\* a fetch with a hook into the repository that had never fetched has
\* created two tracking references and called the hook twice
C11_Witness ==
    /\ call.op = "start" /\ call.ret = "OK" /\ remote.callbacks.update_tips
    /\ Main \in DOMAIN repo.refs /\ OriginMain \in DOMAIN repo.refs
    /\ NoRivals(remote, Advertised(remote, tr))
    /\ Len(obs.tips) = 2
    /\ Cardinality({n \in DOMAIN repo.refs : IsPrefixOf(<<"refs", "remotes">>, n)}) = 2

\* the local references C12 speaks of: not symbolic, matched by the
\* destination of an active fetch refspec, and led back to an advertised
\* head by no active refspec whose destination matches
Prunable(rm, heads, refs) ==
    {n \in DOMAIN refs :
        /\ refs[n].sym = NoName
        /\ \E k \in 1..Len(rm.active_refspecs) :
              /\ ~rm.active_refspecs[k].push
              /\ git_refspec_dst_matches(rm.active_refspecs[k], n)
        /\ \A k \in 1..Len(rm.active_refspecs) :
              git_refspec_dst_matches(rm.active_refspecs[k], n)
                => \A i \in 1..Len(heads) :
                      heads[i].name # git_refspec_rtransform(rm.active_refspecs[k], n)}

\* C12: a prune deletes only such references and leaves every other
\* reference as it was, and a prune that did not fail has deleted them all
C12_PruneExactly ==
    [][(call'.op = "prune" /\ remote.transport # 0) =>
        LET gone == Prunable(remote, Advertised(remote, tr), repo.refs)
        IN  /\ \A n \in DOMAIN repo.refs \ gone :
                  n \in DOMAIN repo'.refs /\ repo'.refs[n] = repo.refs[n]
            /\ DOMAIN repo'.refs \subseteq DOMAIN repo.refs
            /\ ~Failed(call'.ret) => DOMAIN repo'.refs = DOMAIN repo.refs \ gone]_vars

\* a prune has deleted origin/trunk and origin/dev and has kept the local
\* branch-less references of the repository
C12_Witness ==
    /\ call.op = "prune" /\ call.ret = "OK"
    /\ OriginTrunk \notin DOMAIN repo.refs
    /\ Len(obs.tips) = 2
    /\ 3 \in repo.odb

\* the tag policy of the fetch whose options the handle holds
TagPolicy(rm) ==
    IF rm.opts_fetch.download_tags = "UNSPECIFIED" THEN rm.download_tags
    ELSE rm.opts_fetch.download_tags

\* the advertised tags that exist locally with another id
LocalTagsApart(heads, refs) ==
    {i \in 1..Len(heads) :
        /\ IsValidRefName(heads[i].name) /\ IsTag(heads[i].name)
        /\ heads[i].name \in DOMAIN refs
        /\ git_reference_name_to_id(refs, heads[i].name) # heads[i].oid}

TipCalls(tips) == {k \in 1..Len(tips) : tips[k].new # ZeroId}

\* C14: when the update_tips hook has answered with a value other than zero
\* during update_tips, update_tips has ended in an error, the hook was called
\* for no further head, the refspec in work has written no FETCH_HEAD, and
\* no prune has started
C14_NonZeroAborts ==
    obs.op = "fetch" =>
        \A k \in TipCalls(obs.tips) :
            obs.tips[k].ret # "OK" =>
                /\ <<"update_tips", "err">> \in Range(obs.log)
                /\ \A j \in TipCalls(obs.tips) : j <= k
                /\ <<"prune", "start">> \notin Range(obs.log)
                /\ obs.rounds # <<>> =>
                      LET r == obs.rounds[Len(obs.rounds)]
                      IN  Failed(r.err) => r.fh_after = r.fh_before

\* the rounds of update_tips over a fetch refspec without destination
BareRounds(rounds) ==
    {k \in 1..Len(rounds) : ~rounds[k].spec.push /\ rounds[k].spec.dst = NoName}

\* C15 as stated: the reference store is the same before and after a
\* refspec without destination is processed
C15_BareSpecWritesNoRef ==
    \A k \in BareRounds(obs.rounds) : obs.rounds[k].after = obs.rounds[k].before

\* the names at which two reference stores differ
Rewritten(before, after) ==
    {n \in DOMAIN before \cup DOMAIN after :
        n \notin DOMAIN before \/ n \notin DOMAIN after \/ before[n] # after[n]}

\* C15, amended: while a refspec without destination is processed no
\* reference is created or updated but a tag that did not exist, created
\* under the AUTO tag policy; the heads the refspec matches, other than
\* tags under the AUTO policy, are recorded for FETCH_HEAD
C15_BareSpecWritesNoRefButAutoTags ==
    \A k \in BareRounds(obs.rounds) :
        LET r == obs.rounds[k]
            heads == Advertised(remote, tr)
        IN  /\ \A n \in Rewritten(r.before, r.after) :
                  r.tagopt = "AUTO" /\ IsTag(n) /\ n \notin DOMAIN r.before
            /\ (~Failed(r.err) /\ remote.opts_fetch.update_fetchhead) =>
                  \A i \in 1..Len(heads) :
                      (/\ IsValidRefName(heads[i].name)
                       /\ git_refspec_src_matches(r.spec, heads[i].name)
                       /\ ~(IsTag(heads[i].name) /\ r.tagopt = "AUTO"))
                        => \E e \in r.fh_after :
                              e.name = heads[i].name /\ e.oid = heads[i].oid

\* a fetch of refs/heads/main without destination has recorded the head for
\* FETCH_HEAD and has left the reference store as it was in that round
C15_Witness ==
    /\ FetchSucceeded
    /\ \E k \in BareRounds(obs.rounds) :
          /\ obs.rounds[k].spec.src = Main
          /\ obs.rounds[k].after = obs.rounds[k].before
          /\ \E e \in obs.rounds[k].fh_after : e.name = Main

----------------------------------------------------------------------------
(* URL rewriting.                                                          *)

\* the entries written for the direction whose value is a prefix of the url
Matching(config, url, direction) ==
    {i \in 1..Len(config) :
        /\ config[i].direction = direction
        /\ Len(config[i].value) <= Len(url)
        /\ SubSeq(url, 1, Len(config[i].value)) = config[i].value}

\* those of the entries whose value is longest
Longest(config, es) ==
    {i \in es : \A j \in es : Len(config[j].value) <= Len(config[i].value)}

\* the url with the entry's value replaced by the entry's replacement
Replaced(e, url) == e.replacement \o SubSeq(url, Len(e.value) + 1, Len(url))

\* C16: the rewrite returns the url with the longest entry value that is a
\* prefix of it replaced by that entry's replacement, and the url unchanged
\* when no entry value is a prefix of it.
C16_LongestPrefixReplaced ==
    call.op = "apply_insteadof" =>
        LET es == Matching(repo.config, call.url, call.direction)
        IN  IF es = {} THEN call.ret = call.url
            ELSE \E i \in Longest(repo.config, es) :
                    call.ret = Replaced(repo.config[i], call.url)

\* C17: when several entries with different replacements tie for the longest
\* value that is a prefix of the url, the rewrite uses the replacement of the
\* entry that comes last in the iteration.
C17_LastOfTiesWins ==
    call.op = "apply_insteadof" =>
        LET es == Matching(repo.config, call.url, call.direction)
            ties == Longest(repo.config, es)
        IN  (/\ Cardinality(ties) >= 2
             /\ \A i \in ties : repo.config[i].value # <<>>)
                => \A i \in ties : (\A j \in ties : j <= i)
                        => call.ret = Replaced(repo.config[i], call.url)

\* the length of the prefix the rewrite of the url matched
MatchedLength(config, url, direction) ==
    LET es == Matching(config, url, direction)
    IN  IF es = {} THEN 0
        ELSE Len(config[CHOOSE i \in Longest(config, es) : TRUE].value)

\* C18 as stated: the rewrite of a rewritten url returns the rewritten url
\* unless an entry value longer than the prefix matched the first time is a
\* prefix of the rewritten url.
C18_RewriteIdempotent ==
    (call.op = "apply_insteadof" /\ call.n = 2) =>
        LET first == MatchedLength(repo.config, call.origin, call.direction)
            longer == {i \in Matching(repo.config, call.url, call.direction) :
                           Len(repo.config[i].value) > first}
        IN  longer = {} => call.ret = call.url

\* C18, amended: the rewrite of a rewritten url returns the rewritten url
\* when no entry value other than the empty one is a prefix of it, and
\* otherwise replaces the longest such value again, be it longer than the
\* prefix matched the first time or not.
C18_RewrittenAgainByLongest ==
    (call.op = "apply_insteadof" /\ call.n = 2) =>
        LET es == {i \in Matching(repo.config, call.url, call.direction) :
                       repo.config[i].value # <<>>}
        IN  IF es = {} THEN call.ret = call.url
            ELSE \E i \in Longest(repo.config, es) :
                    call.ret = Replaced(repo.config[i], call.url)

\* a url was rewritten, and rewritten again to another url by an entry whose
\* value is no longer than the prefix matched the first time
C18_Witness ==
    /\ call.op = "apply_insteadof"
    /\ call.n = 2
    /\ call.url # call.origin
    /\ call.ret # call.url
    /\ \A i \in Matching(repo.config, call.url, call.direction) :
          Len(repo.config[i].value)
              <= MatchedLength(repo.config, call.origin, call.direction)

----------------------------------------------------------------------------
(* The default branch.                                                     *)

\* the heads the connected handle holds
LsHeads == tr.transports[remote.transport].heads

\* the advertised heads under refs/heads/ with the object id of HEAD, the
\* first advertised head
SameAsHead(heads) ==
    {i \in 2..Len(heads) :
        /\ heads[i].oid = heads[1].oid
        /\ Len(heads[i].name) >= 3
        /\ heads[i].name[1] = "refs"
        /\ heads[i].name[2] = "heads"}

\* C19: on a connected handle default_branch returns the symbolic target of
\* the first advertised head when that head is named HEAD and carries one;
\* otherwise, among the heads under refs/heads/ with HEAD's object id,
\* refs/heads/master when it is one of them, else the first of them, else
\* not-found (and not-found when the first head is not HEAD).
C19_DefaultBranch ==
    (call.op = "default_branch" /\ remote.transport # 0
        /\ tr.transports[remote.transport].connected) =>
        LET heads == LsHeads
            head == Len(heads) > 0 /\ heads[1].name = <<"HEAD">>
            c == IF head THEN SameAsHead(heads) ELSE {}
        IN  IF head /\ heads[1].symref_target # <<>>
            THEN call.ret = "OK" /\ call.out = heads[1].symref_target
            ELSE IF \E i \in c : heads[i].name = <<"refs", "heads", "master">>
            THEN call.ret = "OK" /\ call.out = <<"refs", "heads", "master">>
            ELSE IF c # {}
            THEN /\ call.ret = "OK"
                 /\ \E i \in c : (\A j \in c : i <= j) /\ call.out = heads[i].name
            ELSE call.ret = "ENOTFOUND"

\* the master branch was returned though another branch of HEAD's id is
\* advertised before it
C19_Witness ==
    /\ call.op = "default_branch"
    /\ remote.transport # 0
    /\ tr.transports[remote.transport].connected
    /\ call.ret = "OK"
    /\ LsHeads[1].symref_target = <<>>
    /\ call.out = <<"refs", "heads", "master">>
    /\ \E i \in SameAsHead(LsHeads) : LsHeads[i].name # call.out

----------------------------------------------------------------------------
(* Create.                                                                 *)

\* a remote of the name exists: its url or its pushurl is set
RemoteExists(cfg, name) ==
    /\ name \in RemoteNames
    /\ \/ cfg[<<"remote", name, "url">>] # <<>>
       \/ cfg[<<"remote", name, "pushurl">>] # <<>>

\* a create of a named remote in a repository that holds a remote of the name
CreateOfExisting ==
    /\ call.op = "create"
    /\ call.opts.repository
    /\ RemoteExists(call.before, call.opts.name)

\* C20 as stated: a create of a named remote in a repository where a remote
\* of the name exists fails with already-exists and leaves every variable of
\* the configuration as it was.
C20_ExistingRefused ==
    CreateOfExisting => call.ret = "EEXISTS" /\ repo.remote_cfg = call.before

\* the refspec and prune variables of the remote are well-formed
WellFormed(cfg, name) ==
    /\ \A v \in {"fetch", "push"} : \A i \in 1..Len(cfg[<<"remote", name, v>>]) :
          LET s == cfg[<<"remote", name, v>>][i]
          IN  (s.src[Len(s.src)] = "*") <=> (s.dst[Len(s.dst)] = "*")
    /\ \A k \in {<<"remote", name, "prune">>} :
          \A i \in 1..Len(cfg[k]) : cfg[k][i] \in {"true", "false"}
    /\ cfg[<<"remote", name, "prune">>] = <<>>
          => \A i \in 1..Len(cfg[<<"fetch", "prune">>]) :
                cfg[<<"fetch", "prune">>][i] \in {"true", "false"}

\* C20, amended: a create of a named remote in a repository where a remote
\* of the name exists fails and leaves every variable of the configuration
\* as it was; the error is already-exists when the name is a valid remote
\* name, the variables of the existing remote are well-formed and, for
\* git_remote_create, the url is not empty.
C20_ExistingRefusedUnchanged ==
    CreateOfExisting =>
        /\ call.ret \notin {"OK", "POSITIVE"}
        /\ call.out = [null |-> TRUE]
        /\ repo.remote_cfg = call.before
        /\ (/\ call.opts.name \notin {"v1^{}", "*", ""}
            /\ WellFormed(call.before, call.opts.name)
            /\ (call.api = "git_remote_create" => call.url # <<>>))
              => call.ret = "EEXISTS"

\* a create of a remote that exists was refused with already-exists, and a
\* create with the same options in a repository without it would have written
C20_Witness ==
    /\ CreateOfExisting
    /\ call.ret = "EEXISTS"
    /\ call.api = "git_remote_create_with_opts"
    /\ call.url # <<>>
    /\ call.opts.fetchspec = [null |-> TRUE]
    /\ call.before[<<"remote", "origin", "fetch">>] = <<>>
    /\ call.before[<<"remote", "origin", "url">>] = <<>>
    /\ call.before[<<"remote", "origin", "pushurl">>] # <<>>

\* C21: a create without a name leaves every variable of the configuration
\* as it was, whatever the other options, and the remote it returns has the
\* tag policy NONE.
C21_AnonymousWritesNothing ==
    (call.op = "create" /\ call.opts.name = "(null)") =>
        /\ repo.remote_cfg = call.before
        /\ call.ret = "OK" => call.out.download_tags = "NONE"

\* a remote without name was created in a repository with a fetchspec of
\* its own
C21_Witness ==
    /\ call.op = "create"
    /\ call.opts.name = "(null)"
    /\ call.opts.repository
    /\ call.opts.fetchspec # [null |-> TRUE]
    /\ call.ret = "OK"
    /\ call.out.refspecs # <<>>
    /\ call.out.download_tags = "NONE"

\* C22 as stated: the lookup that follows a successful create of a named
\* remote in a repository yields a remote with the url, the pushurl and the
\* refspecs of the remote the create returned.
C22_LookupEqualsCreated ==
    call.op = "lookup" =>
        /\ call.ret = "OK"
        /\ call.out.url = call.created.url
        /\ call.out.pushurl = call.created.pushurl
        /\ call.out.refspecs = call.created.refspecs

\* the url with the longest entry value, the empty one apart, that is a
\* prefix of it replaced
RewrittenUrls(config, url) ==
    LET es == {i \in Matching(config, url, "fetch") : config[i].value # <<>>}
    IN  IF es = {} THEN {url}
        ELSE {Replaced(config[i], url) : i \in Longest(config, es)}

\* C22 on a fresh name: when the configuration held no refspec of the name
\* and no malformed prune value before the create, the lookup that follows a
\* successful create of a named remote in a repository succeeds and yields
\* the pushurl and the refspecs of the remote the create returned, and its
\* url when the create did not skip the insteadOf rewrite; after a create
\* that skipped it the lookup yields the rewrite of the url the create
\* returned.
C22_LookupEqualsCreatedOnFreshName ==
    (/\ call.op = "lookup"
     /\ call.before[<<"remote", call.opts.name, "fetch">>] = <<>>
     /\ call.before[<<"remote", call.opts.name, "push">>] = <<>>
     /\ WellFormed(call.before, call.opts.name)) =>
        /\ call.ret = "OK"
        /\ call.out.pushurl = call.created.pushurl
        /\ call.out.refspecs = call.created.refspecs
        /\ "SKIP_INSTEADOF" \notin call.opts.flags => call.out.url = call.created.url
        /\ "SKIP_INSTEADOF" \in call.opts.flags
              => call.out.url \in RewrittenUrls(repo.config, call.created.url)

\* auxiliary: the same when the refspec of the handle is in the
\* configuration after the create
C22_LookupEqualsCreatedWhenWritten ==
    (/\ call.op = "lookup"
     /\ call.before[<<"remote", call.opts.name, "fetch">>] = <<>>
     /\ call.before[<<"remote", call.opts.name, "push">>] = <<>>
     /\ WellFormed(call.before, call.opts.name)
     /\ repo.remote_cfg[<<"remote", call.opts.name, "fetch">>] = call.created.refspecs) =>
        /\ call.ret = "OK"
        /\ call.out.pushurl = call.created.pushurl
        /\ call.out.refspecs = call.created.refspecs
        /\ "SKIP_INSTEADOF" \notin call.opts.flags => call.out.url = call.created.url
        /\ "SKIP_INSTEADOF" \in call.opts.flags
              => call.out.url \in RewrittenUrls(repo.config, call.created.url)

\* auxiliary: a create has returned a handle with a refspec that the
\* configuration does not hold
C22_RefspecUnwritten ==
    ~(/\ call.op = "create" /\ call.ret = "OK"
      /\ call.opts.repository /\ call.opts.name = "origin"
      /\ call.before[<<"remote", "origin", "fetch">>] = <<>>
      /\ call.out.refspecs # <<>>
      /\ repo.remote_cfg[<<"remote", "origin", "fetch">>] = <<>>)

\* a remote was created with the default refspec and a rewritten url and
\* looked up with both
C22_Witness ==
    /\ call.op = "lookup"
    /\ call.ret = "OK"
    /\ call.before[<<"remote", call.opts.name, "fetch">>] = <<>>
    /\ call.created.refspecs # <<>>
    /\ call.out.refspecs = call.created.refspecs
    /\ call.created.url # call.url
    /\ call.out.url = call.created.url

----------------------------------------------------------------------------
(* Rename and delete.                                                      *)

\* a remote exists when its url or its pushurl is set
ExistsIn(cfg, name) ==
    /\ <<"remote", name, "url">> \in DOMAIN cfg
    /\ \/ cfg[<<"remote", name, "url">>] # <<>>
       \/ cfg[<<"remote", name, "pushurl">>] # <<>>

RenameRefusable ==
    /\ call.op = "rename"
    /\ \/ ~git_remote_is_valid_name(call.new_name)
       \/ ExistsIn(call.before.remote_cfg, call.new_name)

\* C23: a rename whose new name is invalid, or is the name of a remote that
\* exists, fails, and no variable of the configuration and no reference has
\* changed.
C23_RenameRefusedUnchanged ==
    RenameRefusable =>
        /\ Failed(call.ret)
        /\ repo.remote_cfg = call.before.remote_cfg
        /\ repo.refs = call.before.refs

\* a rename of a remote that exists to the name of another that exists, and
\* one to a name that is not valid, both refused
C23_Witness ==
    /\ RenameRefusable
    /\ call.found.err = "OK"
    /\ call.new_name \in {"other", BadToken}
    /\ call.new_name # call.name
    /\ Failed(call.ret)

\* the fetch refspecs of the renamed remote before the rename, and those of
\* the new section after it
FetchBefore == call.before.remote_cfg[<<"remote", call.name, "fetch">>]
FetchAfter == repo.remote_cfg[<<"remote", call.new_name, "fetch">>]

InSeq(x, seq) == \E i \in 1..Len(seq) : seq[i] = x

Deleted == call.op = "delete" /\ call.ret = "OK"

\* the refspecs the configuration held for the deleted remote
ConfiguredRefspecs ==
    LET f == call.before.remote_cfg[<<"remote", call.name, "fetch">>]
        p == call.before.remote_cfg[<<"remote", call.name, "push">>]
    IN  {f[i] : i \in 1..Len(f)} \cup {p[i] : i \in 1..Len(p)}

MatchedByDestination ==
    {n \in DOMAIN call.before.refs : \E spec \in ConfiguredRefspecs : PatternMatches(spec.dst, n)}

DeletedNotFound == Deleted => git_remote_lookup(repo, call.name).err = "ENOTFOUND"

DeletedRefs ==
    Deleted =>
        /\ DOMAIN repo.refs = DOMAIN call.before.refs \ MatchedByDestination
        /\ \A n \in DOMAIN repo.refs : repo.refs[n] = call.before.refs[n]

DeletedBranchEntries ==
    Deleted =>
        \A b \in BranchNames : repo.remote_cfg[<<"branch">> \o b \o <<"remote">>] # <<call.name>>

\* C25: after a successful delete the lookup of the name fails with
\* not-found, no variable branch.<b>.remote names the remote, and the
\* references are those before the delete without exactly the ones that
\* match the destination of one of the refspecs the remote was configured with.
C25_Delete == DeletedNotFound /\ DeletedBranchEntries /\ DeletedRefs

----------------------------------------------------------------------------
(* The copy of a handle.                                                   *)

Dupped == call.op = "dup" /\ call.ret = "OK"

\* the source is connected, or it has a suspended operation
SourceBusy ==
    \/ call.source.stack # <<>>
    \/ /\ call.source.transport # 0
       /\ call.transports[call.source.transport].connected

DupStrings ==
    /\ call.dup.name = call.source.name
    /\ call.dup.url = call.source.url
    /\ call.dup.pushurl = call.source.pushurl
    /\ call.dup.repo = call.source.repo

DupDetached ==
    /\ call.dup.transport = 0
    /\ call.dup.connect_transport = 0
    /\ call.dup.stack = <<>>
    /\ Failed(git_remote_ls(call.dup @@ [transports |-> call.transports]).err)

----------------------------------------------------------------------------
(* The registry of stream constructors.                                    *)

\* the stream a constructor hands out
Produced(ctor) == IF ctor = "test_stream_init" THEN "test_stream" ELSE NoStream

\* C27: while a custom constructor is the one registered for TLS, the
\* creation of a TLS stream invokes it and returns the stream it produced;
\* once NULL is registered in its place, the creation invokes no custom
\* constructor and does not return the stream of one.
C27_RegisteredTlsConstructor ==
    call.op = "git_tls_stream_new" =>
        /\ obs.registered \in StreamCtors =>
              /\ call.invoked = obs.registered
              /\ call.stream = Produced(obs.registered)
              /\ obs.registered = "test_stream_init" => tr.ctor_called = 1 /\ call.ret = "OK"
        /\ obs.registered = NoCtor =>
              /\ call.invoked = NoCtor
              /\ call.stream \notin {Produced(c) : c \in StreamCtors} \ {NoStream}

\* the test: the constructor was registered and made the stream, NULL was
\* registered in its place, the flag was reset, and a stream is created
C27_Witness ==
    /\ call.op = "git_tls_stream_new"
    /\ obs.registered_before = "test_stream_init"
    /\ obs.made_before = "test_stream"
    /\ obs.registered = NoCtor
    /\ tr.ctor_called = 0
    /\ call.stream # "test_stream"

----------------------------------------------------------------------------
(* The pending-callback stack across performs.                             *)

\* the frames of the innermost suspended I/O, which are the transport's own
IoFrames(stack) == SelectSeq(stack, LAMBDA f : f \in TransportFrames)

\* C28: a perform (whatever the event, TIMEOUT included) that returns
\* would-block with the innermost suspended I/O as it was leaves the
\* pending-callback stack with the same frames in the same order, at every
\* nesting depth.
C28_BlockedPerformKeepsStack ==
    [][(call'.op = "perform" /\ call'.ret = "EAGAIN"
            /\ IoFrames(remote'.stack) = IoFrames(remote.stack))
        => remote'.stack = remote.stack]_vars

\* a perform of a suspended fetch has returned would-block: the frames of
\* the transport, of the connect and of the fetch are pending
C28_Witness ==
    /\ call.op = "perform"
    /\ call.ret = "EAGAIN"
    /\ remote.stack = <<"transport_connect", "git_remote__connect_perform",
                        "git_remote_fetch_performconnect">>

\* the innermost pending frame is the resume of the URL resolution
SuspendedInResolve ==
    remote.stack # <<>> /\ remote.stack[1] = "git_remote__connect_performurl"

Count(log, e) == Cardinality({i \in 1..Len(log) : log[i] = e})

\* C29: the perform that follows a would-block of the URL resolution calls
\* the resolve step again instead of failing, and when the URL is resolved
\* by it the transport connect is started.
C29_ResolveResumed ==
    [][(call'.op = "perform" /\ SuspendedInResolve) =>
          /\ Count(obs'.log, <<"resolve", "start">>) > Count(obs.log, <<"resolve", "start">>)
          /\ Count(obs'.log, <<"resolve", "ok">>) > Count(obs.log, <<"resolve", "ok">>)
                => Count(obs'.log, <<"connect", "start">>) > Count(obs.log, <<"connect", "start">>)]_vars

\* the perform that follows a would-block of the URL resolution ends in a
\* terminal error and has called neither the resolve step nor the connect
C29_ResolveNeverResumed ==
    [][(call'.op = "perform" /\ SuspendedInResolve) =>
          /\ call'.ret = "ERROR"
          /\ remote'.stack = <<>>
          /\ obs'.log = obs.log]_vars

\* the log of the call in work: a call on an idle handle starts a new one
LogBefore == IF remote.stack = <<>> THEN <<>> ELSE obs.log

\* in this step the push of a frame was refused
PushRefused == Count(obs'.log, <<"stack", "full">>) > Count(LogBefore, <<"stack", "full">>)

\* C30: the pending-callback stack never holds more frames than its
\* capacity; a push onto the full stack fails and leaves the stack as it
\* was, full, and the operation that tried to suspend returns a terminal
\* error and not would-block.
C30_StackCapacity ==
    [][/\ Len(remote'.stack) <= MaxPerformCallbacks
       /\ PushRefused =>
             /\ Len(remote'.stack) = MaxPerformCallbacks
             /\ Failed(call'.ret)
             /\ call'.ret # "EAGAIN"]_vars

\* a fetch whose connect suspended with the stack full: the push of the
\* fetch's own frame was refused and the fetch has returned an error
C30_Witness ==
    /\ call.op = "start"
    /\ obs.op = "fetch"
    /\ obs.log # <<>>
    /\ obs.log[Len(obs.log)] = <<"stack", "full">>
    /\ Len(remote.stack) = MaxPerformCallbacks
    /\ remote.stack[MaxPerformCallbacks] = "git_remote__connect_perform"
    /\ call.ret = "ERROR"

\* what git_remote_free was called with: transports that are alive, on a
\* heap nothing was released twice on
FreedSound ==
    /\ call.op = "free"
    /\ ~call.before.double_free /\ ~call.before.use_after_free
    /\ \A t \in call.held : call.transports[t].st = "alive"

\* C31: git_remote_free releases every transport the handle holds exactly
\* once: each of them is released, none is released twice and none is used
\* after its release, also when the suspended connect runs on the transport
\* of the primary slot.
C31_FreeReleasesOnce ==
    FreedSound =>
        /\ \A t \in call.held : tr.transports[t].st = "freed"
        /\ ~obs.double_free
        /\ ~obs.use_after_free

\* the free of a handle whose two slots hold one transport releases it twice
C31_SharedSlotFreedTwice ==
    (FreedSound /\ call.transport # 0 /\ call.connect_transport = call.transport)
        => obs.double_free

\* a download of the handle has ended well
Downloaded ==
    /\ obs.op = "download"
    /\ call.op \in {"start", "perform"}
    /\ call.ret = "OK"
    /\ remote.stack = <<>>
    /\ git_remote_connected(W)

\* C32: after a download the active and the passive refspecs are the
\* configured ones completed against the heads that the connection of this
\* download advertised, also when the download had to connect first.
C32_DwimAgainstOwnConnection ==
    Downloaded =>
        /\ remote.active_refspecs = dwim_refspecs(remote.refspecs, ls_heads(W))
        /\ remote.passive_refspecs = dwim_refspecs(remote.refspecs, ls_heads(W))

\* what holds instead: a download on a handle that is connected already
\* completes the refspecs against the heads of that connection
C32_DwimWhenConnected ==
    (Downloaded /\ <<"connect", "start">> \notin Range(obs.log)) =>
        /\ remote.active_refspecs = dwim_refspecs(remote.refspecs, ls_heads(W))
        /\ remote.passive_refspecs = dwim_refspecs(remote.refspecs, ls_heads(W))

\* the triples of a head with a valid name, an active and a passive refspec
\* whose sources both match the name of the head
MatchingTriples ==
    {t \in (1..Len(peer.peer_heads)) \X (1..Len(remote.active_refspecs))
              \X (1..Len(remote.passive_refspecs)) :
        /\ IsValidRefName(peer.peer_heads[t[1]].name)
        /\ git_refspec_src_matches(remote.active_refspecs[t[2]], peer.peer_heads[t[1]].name)
        /\ git_refspec_src_matches(remote.passive_refspecs[t[3]], peer.peer_heads[t[1]].name)}

LexBefore(s, t) ==
    \/ s[1] < t[1]
    \/ s[1] = t[1] /\ s[2] < t[2]
    \/ s[1] = t[1] /\ s[2] = t[2] /\ s[3] < t[3]

\* C33: called again and again from i = j = k = 0, next_head stops at
\* matching triples only, in ascending lexicographic order of (i, j, k) and
\* without leaving one out that comes before the one it stops at; when it
\* reports the end of the iteration every matching triple was returned once.
C33_NextHeadEnumerates ==
    /\ \A p \in 1..Len(obs.out) : obs.out[p] \in MatchingTriples
    /\ \A p \in 1..Len(obs.out), q \in 1..Len(obs.out) :
          p < q => LexBefore(obs.out[p], obs.out[q])
    /\ \A t \in MatchingTriples :
          (call.over \/ \E p \in 1..Len(obs.out) : LexBefore(t, obs.out[p]))
              => t \in Range(obs.out)
    /\ Len(obs.out) <= Cardinality(MatchingTriples)

C33_Witness ==
    /\ call.op = "next_head"
    /\ call.over
    /\ Len(obs.out) >= 4
    /\ \E p \in 1..Len(obs.out) : obs.out[p][2] = 2 /\ obs.out[p][3] = 2
    /\ \E i \in 1..Len(peer.peer_heads) : ~IsValidRefName(peer.peer_heads[i].name)

\* the hook has refused an update of the opportunistic updates: every
\* refspec was worked off well, and the hook has answered a negative value
OpportunisticVeto ==
    /\ obs.op = "fetch"
    /\ \A r \in 1..Len(obs.rounds) : obs.rounds[r].err = "OK"
    /\ \E k \in TipCalls(obs.tips) : obs.tips[k].ret = "EUSER"

\* C34: when the update_tips hook answers a negative value during the
\* opportunistic updates, update_tips ends in an error, the fetch returns an
\* error and no prune is started.
C34_OpportunisticVetoAborts ==
    OpportunisticVeto =>
        /\ <<"update_tips", "err">> \in Range(obs.log)
        /\ Failed(call.ret)
        /\ <<"prune", "start">> \notin Range(obs.log)

\* what the code does: the veto ends the opportunistic updates, update_tips
\* answers zero and the fetch goes on as after a success
C34_OpportunisticVetoSwallowed ==
    OpportunisticVeto =>
        /\ <<"update_tips", "ok">> \in Range(obs.log)
        /\ \A k \in TipCalls(obs.tips) :
              obs.tips[k].ret = "EUSER" => \A j \in TipCalls(obs.tips) : j <= k

\* the calls of update_tips_for_spec that ended well and found FETCH_HEAD
\* empty: what FETCH_HEAD holds after them is what they have produced
FirstWrites(rounds) ==
    {k \in 1..Len(rounds) : rounds[k].err = "OK" /\ rounds[k].fh_before = {}}

\* C35: of the FETCH_HEAD entries written for one refspec at most one is
\* marked for merge; for a refspec without wildcard the entries marked are
\* those of the head named as the source of the refspec, this head is
\* written when it is advertised, and no other entry is marked.
C35_OneMergeEntry ==
    \A k \in FirstWrites(obs.rounds) :
        LET r == obs.rounds[k]
        IN  /\ Cardinality({e \in r.fh_after : e.is_merge}) <= 1
            /\ ~IsWild(r.spec.src) =>
                  /\ \A e \in r.fh_after : e.is_merge <=> e.name = r.spec.src
                  /\ \A i \in 1..Len(Advertised(remote, tr)) :
                        Advertised(remote, tr)[i].name = r.spec.src
                            => [oid |-> Advertised(remote, tr)[i].oid, is_merge |-> TRUE,
                                name |-> r.spec.src] \in r.fh_after

\* a refspec without wildcard has written its head for merge
C35_Witness ==
    \E k \in FirstWrites(obs.rounds) :
        /\ ~IsWild(obs.rounds[k].spec.src)
        /\ \E e \in obs.rounds[k].fh_after : e.is_merge

\* a wildcard refspec has written several heads, one of them for merge
C35_WildcardWritten ==
    \E k \in FirstWrites(obs.rounds) :
        /\ IsWild(obs.rounds[k].spec.src)
        /\ Cardinality(obs.rounds[k].fh_after) >= 2
        /\ \E e \in obs.rounds[k].fh_after : e.is_merge

\* the last value of a variable of the configuration is "true"
ConfiguredTrue(key) ==
    repo.remote_cfg[key] # <<>> /\ repo.remote_cfg[key][Len(repo.remote_cfg[key])] = "true"

\* remote.origin.prune if it is set, else fetch.prune if it is set, else false
PruneSetting ==
    IF repo.remote_cfg[<<"remote", "origin", "prune">>] # <<>>
    THEN ConfiguredTrue(<<"remote", "origin", "prune">>)
    ELSE IF repo.remote_cfg[<<"fetch", "prune">>] # <<>>
    THEN ConfiguredTrue(<<"fetch", "prune">>)
    ELSE FALSE

\* C36: the handle looked up has the prune setting of the configuration:
\* remote.origin.prune if set, else fetch.prune if set, else false.  After the
\* update of the tips has ended well in a fetch, the prune is started exactly
\* when the option is PRUNE, or is UNSPECIFIED with the setting true.
C36_PruneDecision ==
    /\ (call.op \in {"lookup", "start"} /\ call.ret = "OK")
          => remote.prune_refs = PruneSetting
    /\ (obs.op = "fetch" /\ <<"update_tips", "ok">> \in Range(obs.log)) =>
          (<<"prune", "start">> \in Range(obs.log)
              <=> \/ remote.opts_fetch.prune = "PRUNE"
                  \/ remote.opts_fetch.prune = "UNSPECIFIED" /\ PruneSetting)

\* fetch.prune alone has made a fetch without a prune option prune
C36_Witness ==
    /\ obs.op = "fetch" /\ call.ret = "OK"
    /\ remote.opts_fetch.prune = "UNSPECIFIED"
    /\ repo.remote_cfg[<<"remote", "origin", "prune">>] = <<>>
    /\ repo.remote_cfg[<<"fetch", "prune">>] = <<"true">>
    /\ <<"prune", "ok">> \in Range(obs.log)
    /\ OriginStale \notin DOMAIN repo.refs

\* a step that is a git_remote_connect on an idle handle
ConnectStep ==
    /\ remote.stack = <<>>
    /\ call'.op = "start" /\ obs'.op = "connect" /\ call' # call

\* what a git_remote_connect on an idle handle does with the URLs
ConnectUrlStep ==
    /\ (ConnectStep /\ remote'.connect_transport # 0) =>
          /\ remote'.resolved_url \in
                {IF remote'.dir = "push" /\ remote.pushurl # NullUrl
                 THEN remote.pushurl ELSE remote.url}
                \cup (IF remote'.callbacks.resolve_url THEN {HookUrl} ELSE {})
          /\ remote'.resolved_url # NullUrl
    /\ (ConnectStep /\ (IF remote'.dir = "push"
                        THEN remote.pushurl = NullUrl /\ remote.url = NullUrl
                        ELSE remote.url = NullUrl)) =>
          /\ call'.ret = "EINVALID"
          /\ tr' = tr
          /\ remote'.transport = remote.transport
          /\ remote'.connect_transport = 0
          /\ remote'.stack = <<>>
          /\ <<"resolve", "start">> \notin Range(obs'.log)

\* C37: the transport connects to the URL of the direction: a connection in
\* push direction is made to the push URL if there is one and to the fetch
\* URL otherwise (or to what a resolve_url hook wrote).  A connect in a
\* direction the handle has no URL for returns GIT_EINVALID, makes no
\* transport and leaves no pending callback.
C37_ConnectUrl == [][ConnectUrlStep]_vars

\* a connection in push direction is pending on the push URL
C37_Witness ==
    /\ obs.op = "connect" /\ call.ret = "EAGAIN"
    /\ remote.dir = "push" /\ remote.connect_transport # 0
    /\ ~remote.callbacks.resolve_url
    /\ remote.url = FetchUrl /\ remote.pushurl = PushUrl
    /\ remote.resolved_url = PushUrl

\* auxiliary: a push connection of a handle without a push URL is pending on
\* the fetch URL
C37_PushFallsBack ==
    ~(/\ obs.op = "connect" /\ remote.dir = "push" /\ remote.connect_transport # 0
      /\ remote.pushurl = NullUrl /\ remote.resolved_url = FetchUrl)

\* auxiliary: a fetch connect of a handle with a push URL only has failed
C37_NoFetchUrl ==
    ~(/\ obs.op = "connect" /\ remote.dir = "fetch" /\ remote.url = NullUrl
      /\ call.op = "start" /\ call.ret = "EINVALID")

\* the fetch refspecs the options of a create ask for
RefspecsAsked(opts) ==
    IF opts.fetchspec # NoSpec THEN <<opts.fetchspec>>
    ELSE IF opts.name # NullName /\ "SKIP_DEFAULT_FETCHSPEC" \notin opts.flags
    THEN <<RefSpec(N("refs", "heads", "*"), N("refs", "remotes", opts.name) \o <<"*">>, TRUE)>>
    ELSE <<>>

\* C38: the handle a git_remote_create_with_opts returns has the fetchspec of
\* the options as its only fetch refspec when one is given, whatever the
\* flags; the default refspec +refs/heads/*:refs/remotes/<name>/* when a name
\* is given without fetchspec and without SKIP_DEFAULT_FETCHSPEC; and no
\* refspec otherwise.
C38_CreateRefspecs ==
    (/\ call.op = "create" /\ call.api = "git_remote_create_with_opts"
     /\ call.ret = "OK")
        => /\ call.out.refspecs = RefspecsAsked(call.opts)
           /\ Len(call.out.refspecs) <= 1

\* a named remote was created with a fetchspec and without the flag: the
\* handle has the fetchspec and not the default
C38_Witness ==
    /\ call.op = "create" /\ call.api = "git_remote_create_with_opts"
    /\ call.ret = "OK"
    /\ call.opts.name = "origin" /\ call.opts.flags = {}
    /\ call.opts.fetchspec = RefSpec(Main, OriginMain, FALSE)
    /\ call.out.refspecs = <<RefSpec(Main, OriginMain, FALSE)>>

\* auxiliary: the default refspec of a named remote, and no refspec with the
\* flag
C38_DefaultGiven ==
    ~(/\ call.op = "create" /\ call.api = "git_remote_create_with_opts"
      /\ call.ret = "OK" /\ call.opts.name = "other" /\ call.opts.fetchspec = NoSpec
      /\ call.opts.flags = {} /\ Len(call.out.refspecs) = 1)

C38_NoneGiven ==
    ~(/\ call.op = "create" /\ call.api = "git_remote_create_with_opts"
      /\ call.ret = "OK" /\ call.opts.name = "other" /\ call.opts.fetchspec = NoSpec
      /\ call.opts.flags = {"SKIP_DEFAULT_FETCHSPEC"} /\ call.out.refspecs = <<>>)

\* C39: the default set_fd_events hook puts the descriptor into the write
\* set exactly when WRITE is requested and into the read set exactly when
\* READ is requested; a round of the select loop for a transport that waits
\* for writability only, with the descriptor writable, performs with WRITE.
C39_HookSetsWriteForWrite ==
    /\ call.op = "set_fd_events" =>
          /\ call.fd \in remote.evdata.writefds <=> "WRITE" \in call.event
          /\ call.fd \in remote.evdata.readfds <=> "READ" \in call.event
    /\ (call.op = "select" /\ call.event = {"WRITE"} /\ call.fd \in call.ready.w)
          => "WRITE" \in call.events

\* auxiliary: the hook puts the descriptor into both sets exactly when READ
\* is requested
C39_WriteSetFollowsRead ==
    call.op = "set_fd_events" =>
        /\ call.fd \in remote.evdata.readfds <=> "READ" \in call.event
        /\ call.fd \in remote.evdata.writefds <=> "READ" \in call.event

\* auxiliary: a round for a transport that waits for writability only
\* performs with TIMEOUT or ERR, and never with WRITE
C39_WriteNeverDelivered ==
    (call.op = "select" /\ call.event = {"WRITE"})
        => call.events \in {{"TIMEOUT"}, {"ERR"}}

\* auxiliary: a round for a transport that waits to read performs with
\* WRITE although the descriptor is not readable
C39_SpuriousWrite ==
    ~(/\ call.op = "select" /\ call.event = {"READ"}
      /\ call.fd \notin call.ready.r /\ call.events = {"WRITE"})

\* the variable an add writes to
AddKey == <<"remote", call.name, IF call.api = "git_remote_add_fetch" THEN "fetch" ELSE "push">>

\* C40: a git_remote_add_fetch or git_remote_add_push that returns success
\* has appended the refspec to the values of the variable, the values before
\* it kept and every other variable as it was.
C40_AddSucceedsOnlyWritten ==
    (call.op = "add" /\ call.ret = "OK") =>
        repo.remote_cfg = [call.before EXCEPT ![AddKey] = Append(@, call.refspec)]

\* auxiliary: an add returns an error for an invalid name or an unparsable
\* refspec only, and leaves the configuration as it was then
C40_AddErrors ==
    (call.op = "add" /\ call.ret # "OK") =>
        /\ call.ret = "EINVALIDSPEC"
        /\ call.name = BadToken \/ call.refspec = BadSpec
        /\ repo.remote_cfg = call.before

\* auxiliary: an add of a valid refspec to a valid name has returned success
\* and the configuration is as it was
C40_AddDropped ==
    ~(/\ call.op = "add" /\ call.ret = "OK"
      /\ call.api = "git_remote_add_fetch" /\ call.name = "origin"
      /\ repo.remote_cfg = call.before)

\* auxiliary: an add has appended a second value
C40_AddAppended ==
    ~(/\ call.op = "add" /\ call.ret = "OK"
      /\ call.api = "git_remote_add_fetch" /\ call.name = "origin"
      /\ Len(call.before[AddKey]) = 1
      /\ repo.remote_cfg[AddKey] = Append(call.before[AddKey], call.refspec))

====
